---------------------------- MODULE Spec2Model ----------------------------
(***************************************************************************)
(* TimeScrub API: the tenant-scoped access guard, the soft-delete state    *)
(* machine and the audit recorder of src/src/server.ts, as a state machine *)
(* over the relational store.                                              *)
(*                                                                         *)
(* The store's tables are sets of rows.  A request is handled by one       *)
(* process slot; a handler is cut at its store calls (each `await prisma`  *)
(* is one step), the synchronous code around a store call belonging to the *)
(* step of that call.  A slot keeps the request and its response until the *)
(* exchange is closed.                                                     *)
(***************************************************************************)
EXTENDS Integers, Sequences, FiniteSets, TLC

VARIABLES
    employee,     \* table Employee
    customer,     \* table Customer
    jobLocation,  \* table JobLocation
    job,          \* table Job
    timeEntry,    \* table TimeEntry
    auditLog,     \* table AuditLog, in insertion order
    clock,        \* the time: what `new Date()` and CURRENT_TIMESTAMP give next
    req           \* per process slot: the request in flight or last answered

vars == <<employee, customer, jobLocation, job, timeEntry, auditLog, clock, req>>
tables == <<employee, customer, jobLocation, job, timeEntry, auditLog>>

(***************************************************************************)
(* Bounds of the model.                                                    *)
(***************************************************************************)
\* The clock runs from 1 to MaxClock.  A handler that writes advances it
\* twice, at its domain write and when it ends (with its audit insert or its
\* response); it is taken only while the clock can still advance twice.
MaxClock == 5
\* Ids a request can name in its body or query, 1..MaxId: the ids of the
\* initial employees and customers, and one id more than the initial locations
\* and jobs have.
MaxId == 3

\* null (deletedAt: null, deletedBy: null, metadata = null)
Null == 0

Procs == {1, 2}
\* The slots requests arrive on when requests are handled one after another.
SeqProcs == {1}

Ids == 1..MaxId
\* The ids a path names (/:id): those, and one no row has.
PathIds == 1..(MaxId + 1)
Companies == {1, 2}
Roles == {"EMPLOYEE", "ADMIN"}

\* bcrypt.hash / bcrypt.compare: the hash determines the password.
Hash(password) == <<"bcrypt", password>>

NoBody == [f \in {} |-> Null]
Has(body, f) == f \in DOMAIN body
\* A field of the body, as JavaScript truthiness sees it: absent (undefined)
\* is falsy; the bodies of the model carry no other falsy value (0, "", null).
Truthy(body, f) == Has(body, f)

\* prisma.<model>.update({ data }): fields absent from data (undefined) keep
\* their stored value, fields present replace it.
ApplyData(row, data) ==
    [f \in DOMAIN row |-> IF f \in DOMAIN data THEN data[f] ELSE row[f]]

\* prisma.<model>.findUnique({ where: { id } }): the set of matching rows,
\* empty for null.
FindById(table, id) == {r \in table : r.id = id}

\* AUTO_INCREMENT
NextId(table) == IF table = {} THEN 1
                 ELSE (CHOOSE m \in {r.id : r \in table} :
                          \A k \in {r.id : r \in table} : k <= m) + 1

Replace(table, id, new) == {r \in table : r.id # id} \cup {new}

(***************************************************************************)
(* Principals: the claims {id, companyId, role} of the tokens POST /login  *)
(* issued for the initial employees.                                       *)
(***************************************************************************)
Principals ==
    { [id |-> 1, companyId |-> 1, role |-> "ADMIN"],
      [id |-> 2, companyId |-> 1, role |-> "EMPLOYEE"],
      [id |-> 3, companyId |-> 2, role |-> "ADMIN"] }

(***************************************************************************)
(* The initial store: two companies, company 1 with an admin, an employee, *)
(* two customers, a location of the first and a job there; company 2 with  *)
(* an admin, a customer, its location and a job; a time entry of each      *)
(* employee.                                                               *)
(***************************************************************************)
EmployeeRow(id, companyId, email, name, role) ==
    [id |-> id, companyId |-> companyId, email |-> email, name |-> name,
     role |-> role, passwordHash |-> Hash("pw"),
     deletedAt |-> Null, deletedBy |-> Null]

CustomerRow(id, companyId, name) ==
    [id |-> id, companyId |-> companyId, name |-> name,
     deletedAt |-> Null, deletedBy |-> Null]

LocationRow(id, customerId, name) ==
    [id |-> id, customerId |-> customerId, name |-> name,
     deletedAt |-> Null, deletedBy |-> Null]

JobRow(id, companyId, customerId, locationId, name) ==
    [id |-> id, companyId |-> companyId, customerId |-> customerId,
     locationId |-> locationId, name |-> name,
     deletedAt |-> Null, deletedBy |-> Null]

(***************************************************************************)
(* middleware/auth.ts.  A token is its payload, the key it was signed with *)
(* and its expiry; an Authorization header is a scheme and a token.        *)
(***************************************************************************)
\* req.user before the gate has set it
Anonymous == [id |-> 0, companyId |-> 0, role |-> "NONE"]

\* jwt.sign(payload, process.env.JWT_SECRET, { expiresIn: "24h" }): the 24
\* hours outlast the run.
Sign(payload) == [payload |-> payload, key |-> "JWT_SECRET", exp |-> MaxClock + 1]

\* The header is absent.
NoHeader == [scheme |-> "", token |-> [payload |-> Anonymous, key |-> "", exp |-> 0]]

\* "Bearer " + token
Bearer(token) == [scheme |-> "Bearer", token |-> token]

\* A faulty verification, for C11: the expiry is not looked at.
VerifySignatureOnly(token) == token.key = "JWT_SECRET"

\* jwt.verify(token, process.env.JWT_SECRET) does not throw
Verify(token) == token.key = "JWT_SECRET" /\ token.exp > clock

\* requireAuth: the response it sends, or status 0 and the payload it puts in
\* req.user before next()
requireAuth(header) ==
    IF header = NoHeader \/ header.scheme # "Bearer"
    THEN [status |-> 401, error |-> "Missing authorization header", user |-> Anonymous]
    ELSE IF ~Verify(header.token)
    THEN [status |-> 401, error |-> "Invalid or expired token", user |-> Anonymous]
    ELSE [status |-> 0, error |-> "", user |-> header.token.payload]

IdleReq ==
    [op |-> "none", user |-> Anonymous, header |-> NoHeader,
     id |-> 0, body |-> NoBody, pc |-> "idle", status |-> 0,
     error |-> "", data |-> {}, before |-> {}, entity |-> 0, list |-> <<>>]

SeedEmployees ==
    { EmployeeRow(1, 1, "a@x", "Ann", "ADMIN"),
      EmployeeRow(2, 1, "b@x", "Bob", "EMPLOYEE"),
      EmployeeRow(3, 2, "c@x", "Cy", "ADMIN") }
SeedCustomers ==
    { CustomerRow(1, 1, "Acme"), CustomerRow(2, 2, "Zeta"),
      CustomerRow(3, 1, "Bolt") }
SeedLocations == { LocationRow(1, 1, "Yard"), LocationRow(2, 2, "Dock") }
SeedJobs == { JobRow(1, 1, 1, 1, "Sweep"), JobRow(2, 2, 2, 2, "Mop") }
SeedTimeEntries ==
    { [id |-> 1, companyId |-> 1, employeeId |-> 1, jobId |-> 1,
       start |-> 1, end |-> 2, durationMs |-> 1],
      [id |-> 2, companyId |-> 1, employeeId |-> 2, jobId |-> 1,
       start |-> 1, end |-> 2, durationMs |-> 1],
      [id |-> 3, companyId |-> 2, employeeId |-> 3, jobId |-> 2,
       start |-> 1, end |-> 2, durationMs |-> 1] }

Init ==
    /\ employee = SeedEmployees
    /\ customer = SeedCustomers
    /\ jobLocation = SeedLocations
    /\ job = SeedJobs
    /\ timeEntry = SeedTimeEntries
    /\ auditLog = <<>>
    /\ clock = 1
    /\ req = [p \in Procs |-> IdleReq]

(***************************************************************************)
(* Requests and responses.                                                 *)
(***************************************************************************)
\* A slot takes a new request when it holds none; no request is taken once
\* the clock has reached MaxClock.
Free(p) == req[p].pc = "idle" /\ clock < MaxClock

\* A request that writes the store is taken while the clock can still
\* advance `n` times.
CanWrite(n) == clock + n <= MaxClock

\* A request that passed requireAuth: its header carries the token POST /login
\* issued, and req.user is the token's payload.
NewReq(op, user, id, body) ==
    [IdleReq EXCEPT !.op = op, !.user = user, !.header = Bearer(Sign(user)),
                    !.id = id, !.body = body]

\* res.status(status).json({ error })
Fail(r, status, error) ==
    [r EXCEPT !.pc = "done", !.status = status, !.error = error]

\* res.status(status).json(data)
Reply(r, status, data) ==
    [r EXCEPT !.pc = "done", !.status = status, !.data = data]

\* The store call threw: the async handler's promise rejects and the handler
\* sends no response.
Throw(r) == [r EXCEPT !.pc = "failed"]

\* A faulty role check, for C3: any role the store knows passes.
IsAnyRole(user) == user.role \in Roles

\* A faulty role check, for C22: the role is read from the principal's
\* Employee row as it is now, and an archived employee is no ADMIN.
IsAdminStored(user) ==
    \E e \in employee :
        e.id = user.id /\ e.role = "ADMIN" /\ e.deletedAt = Null

\* if (user.role !== "ADMIN") return res.status(403).json({ error: "Forbidden" })
IsAdmin(user) == user.role = "ADMIN"

(***************************************************************************)
(* services/audit.ts                                                       *)
(***************************************************************************)
AuditRow(companyId, employeeId, action, entityType, entityId, metadata) ==
    [id |-> Len(auditLog) + 1, companyId |-> companyId,
     employeeId |-> employeeId, action |-> action, entityType |-> entityType,
     entityId |-> entityId, timestamp |-> clock, metadata |-> metadata]

\* The exchanges of two requests overlap: one is being handled while the
\* other is, or before the response to the other has been delivered.
Overlap == \E p, q \in Procs : p # q /\ req[p].pc # "idle" /\ req[q].pc # "idle"

\* DEFAULT CURRENT_TIMESTAMP(3): the millisecond of the insert.  Requests
\* handled one after another are taken to be more than a millisecond apart;
\* the inserts of requests whose exchanges overlap may fall into the same
\* millisecond.
Stamps ==
    {clock} \cup
    (IF Overlap /\ auditLog # <<>> THEN {auditLog[Len(auditLog)].timestamp} ELSE {})

\* A faulty recorder, for C13: the row replaces the last one of the log.
logAuditOverLast(companyId, employeeId, action, entityType, entityId, metadata) ==
    /\ auditLog' =
           IF auditLog = <<>>
           THEN <<AuditRow(companyId, employeeId, action, entityType, entityId,
                           metadata)>>
           ELSE [auditLog EXCEPT ![Len(auditLog)] =
                    [AuditRow(companyId, employeeId, action, entityType, entityId,
                              metadata) EXCEPT !.id = Len(auditLog)]]
    /\ clock' = clock + 1

\* prisma.auditLog.create({ data })
logAudit(companyId, employeeId, action, entityType, entityId, metadata) ==
    /\ \E ts \in Stamps :
          auditLog' = Append(auditLog,
              [AuditRow(companyId, employeeId, action, entityType, entityId,
                        metadata) EXCEPT !.timestamp = ts])
    /\ clock' = clock + 1


\* The store rejects the audit insert (prisma.auditLog.create throws): logAudit
\* rejects, and with it the handler, after its domain write.
AuditFails(p) ==
    /\ req[p].pc = "audit"
    /\ req' = [req EXCEPT ![p] = Throw(req[p])]
    /\ clock' = clock + 1
    /\ UNCHANGED tables

\* The exchange is over (the response was sent, or the client gave up on a
\* request that got none): the slot is free again.
Close(p) ==
    /\ req[p].pc \in {"done", "failed"}
    /\ req' = [req EXCEPT ![p] = IdleReq]
    /\ UNCHANGED <<tables, clock>>

Set(p, r) == req' = [req EXCEPT ![p] = r]

Pick(body, fields) == [f \in DOMAIN body \cap fields |-> body[f]]

\* select: { ... }
Select(row, fields) == [f \in fields |-> row[f]]

\* data: { deletedAt: new Date(), deletedBy: user.id }
ArchiveData(user) == [deletedAt |-> clock, deletedBy |-> user.id]

\* A faulty restore, for C9: deletedBy is left as the archive set it.
RestoreDeletedAtOnly == [deletedAt |-> Null]

\* data: { deletedAt: null, deletedBy: null }
RestoreData == [deletedAt |-> Null, deletedBy |-> Null]

\* A faulty filter, for C10: the deletedAt condition is never added.
VisibleAlways(row, showArchived) == TRUE

\* ...(showArchived ? {} : { deletedAt: null })
Visible(row, showArchived) == showArchived \/ row.deletedAt = Null

(***************************************************************************)
(* Employees                                                               *)
(***************************************************************************)
EmployeeCreateBodies ==
    { [email |-> e, name |-> "Dee", password |-> "pw", role |-> r] :
          e \in {"a@x", "d@x"}, r \in {"EMPLOYEE", "MANAGER"} }
    \cup { [name |-> "Dee", password |-> "pw", role |-> "EMPLOYEE"] }

EmployeeUpdateBodies ==
    { [role |-> "EMPLOYEE"], [email |-> "b@x"],
      [name |-> "Eve", role |-> "ADMIN", email |-> "e@x"] }

\* GET /admin/employees.  The handler reads nothing of the query string: a
\* showArchived sent along changes nothing.
ListEmployees(p) ==
    /\ Free(p)
    /\ \E user \in Principals, showArchived \in BOOLEAN :
        LET r == NewReq("GET /admin/employees", user, 0,
                        [showArchived |-> showArchived]) IN
        /\ Set(p, IF ~IsAdmin(user) THEN Fail(r, 403, "Forbidden")
                  ELSE Reply(r, 200,
                         { Select(e, {"id", "email", "name", "role"}) :
                             e \in { x \in employee :
                                       /\ x.companyId = user.companyId
                                       /\ x.deletedAt = Null } }))
        /\ UNCHANGED <<tables, clock>>

\* A faulty create, for C19: the lookup by email is left out, and a held email
\* goes on to the store.
CreateEmployeeWithoutLookup(p) ==
    /\ Free(p)
    /\ CanWrite(2)
    /\ \E user \in Principals, body \in EmployeeCreateBodies :
        LET r == NewReq("POST /admin/employees", user, 0, body) IN
        /\ Set(p, IF ~IsAdmin(user) THEN Fail(r, 403, "Forbidden")
                  ELSE IF ~(/\ Truthy(body, "email") /\ Truthy(body, "name")
                            /\ Truthy(body, "password") /\ Truthy(body, "role"))
                  THEN Fail(r, 400, "Missing required fields: email, name, password, role")
                  ELSE IF body.role \notin Roles THEN Fail(r, 400, "Invalid role")
                  ELSE [r EXCEPT !.pc = "write"])
        /\ UNCHANGED <<tables, clock>>

\* POST /admin/employees, up to the lookup by email
CreateEmployee(p) ==
    /\ Free(p)
    /\ CanWrite(2)
    /\ \E user \in Principals, body \in EmployeeCreateBodies :
        LET r == NewReq("POST /admin/employees", user, 0, body) IN
        /\ Set(p, IF ~IsAdmin(user) THEN Fail(r, 403, "Forbidden")
                  ELSE IF ~(/\ Truthy(body, "email") /\ Truthy(body, "name")
                            /\ Truthy(body, "password") /\ Truthy(body, "role"))
                  THEN Fail(r, 400, "Missing required fields: email, name, password, role")
                  ELSE IF body.role \notin Roles THEN Fail(r, 400, "Invalid role")
                  ELSE IF \E e \in employee : e.email = body.email
                  THEN Fail(r, 409, "Email already exists")
                  ELSE [r EXCEPT !.pc = "write"])
        /\ UNCHANGED <<tables, clock>>

\* A faulty store, for C24: Employee has no unique index on email.
CreateEmployeeWriteNoIndex(p) ==
    LET r == req[p]
        row == [id |-> NextId(employee), companyId |-> r.user.companyId,
                email |-> r.body.email, name |-> r.body.name,
                role |-> r.body.role, passwordHash |-> Hash(r.body.password),
                deletedAt |-> Null, deletedBy |-> Null] IN
    /\ r.pc = "write"
    /\ r.op = "POST /admin/employees"
    /\ employee' = employee \cup {row}
    /\ clock' = clock + 1
    /\ Set(p, [r EXCEPT !.pc = "audit", !.entity = row.id, !.data = {row}])
    /\ UNCHANGED <<customer, jobLocation, job, timeEntry, auditLog>>

\* POST /admin/employees: prisma.employee.create
CreateEmployeeWrite(p) ==
    LET r == req[p]
        row == [id |-> NextId(employee), companyId |-> r.user.companyId,
                email |-> r.body.email, name |-> r.body.name,
                role |-> r.body.role, passwordHash |-> Hash(r.body.password),
                deletedAt |-> Null, deletedBy |-> Null] IN
    /\ r.pc = "write"
    /\ r.op = "POST /admin/employees"
    /\ IF \E e \in employee : e.email = r.body.email   \* Employee_email_key
       THEN /\ Set(p, Throw(r))
            /\ UNCHANGED <<employee, clock>>
       ELSE /\ employee' = employee \cup {row}
            /\ clock' = clock + 1
            /\ Set(p, [r EXCEPT !.pc = "audit", !.entity = row.id, !.data = {row}])
    /\ UNCHANGED <<customer, jobLocation, job, timeEntry, auditLog>>

\* POST /admin/employees: logAudit and the response
CreateEmployeeAudit(p) ==
    LET r == req[p] IN
    /\ r.pc = "audit"
    /\ r.op = "POST /admin/employees"
    /\ logAudit(r.user.companyId, r.user.id, "EMPLOYEE_CREATED", "EMPLOYEE", r.entity,
                {Pick(r.body, {"email", "name", "role"})})
    /\ Set(p, Reply(r, 201, r.data))
    /\ UNCHANGED <<employee, customer, jobLocation, job, timeEntry>>

\* PUT /admin/employees/:id, up to the before-state lookup
UpdateEmployee(p) ==
    /\ Free(p)
    /\ CanWrite(2)
    /\ \E user \in Principals, id \in PathIds, body \in EmployeeUpdateBodies :
        LET r == NewReq("PUT /admin/employees/:id", user, id, body)
            before == FindById(employee, id) IN
        /\ Set(p, IF ~IsAdmin(user) THEN Fail(r, 403, "Forbidden")
                  ELSE IF before = {} \/ (\E b \in before : b.companyId # user.companyId)
                  THEN Fail(r, 404, "Employee not found")
                  ELSE [r EXCEPT !.pc = "write", !.before = before])
        /\ UNCHANGED <<tables, clock>>

\* PUT /admin/employees/:id: prisma.employee.update
UpdateEmployeeWrite(p) ==
    LET r == req[p]
        data == Pick(r.body, {"name", "role", "email"}) IN
    /\ r.pc = "write"
    /\ r.op = "PUT /admin/employees/:id"
    /\ IF \/ FindById(employee, r.id) = {}
          \/ (Has(data, "email") /\
                \E e \in employee : e.id # r.id /\ e.email = data.email)
       THEN /\ Set(p, Throw(r))
            /\ UNCHANGED <<employee, clock>>
       ELSE \E old \in FindById(employee, r.id) :
            LET new == ApplyData(old, data) IN
            /\ employee' = Replace(employee, r.id, new)
            /\ clock' = clock + 1
            /\ Set(p, [r EXCEPT !.pc = "audit", !.entity = new.id, !.data = {new}])
    /\ UNCHANGED <<customer, jobLocation, job, timeEntry, auditLog>>

\* PUT /admin/employees/:id: logAudit and the response
UpdateEmployeeAudit(p) ==
    LET r == req[p]
        data == Pick(r.body, {"name", "role", "email"}) IN
    /\ r.pc = "audit"
    /\ r.op = "PUT /admin/employees/:id"
    /\ logAudit(r.user.companyId, r.user.id, "EMPLOYEE_UPDATED", "EMPLOYEE", r.entity,
                {[before |-> [id |-> r.id] @@ data, after |-> data]})
    /\ Set(p, Reply(r, 200, r.data))
    /\ UNCHANGED <<employee, customer, jobLocation, job, timeEntry>>

\* DELETE /admin/employees/:id, through prisma.employee.update
ArchiveEmployee(p) ==
    /\ Free(p)
    /\ CanWrite(2)
    /\ \E user \in Principals, id \in PathIds :
        LET r == NewReq("DELETE /admin/employees/:id", user, id, NoBody) IN
        /\ IF ~IsAdmin(user)
           THEN /\ Set(p, Fail(r, 403, "Forbidden"))
                /\ UNCHANGED <<employee, clock>>
           ELSE IF FindById(employee, id) = {}
           THEN /\ Set(p, Throw(r))
                /\ UNCHANGED <<employee, clock>>
           ELSE \E old \in FindById(employee, id) :
                /\ employee' = Replace(employee, id, ApplyData(old, ArchiveData(user)))
                /\ clock' = clock + 1
                /\ Set(p, [r EXCEPT !.pc = "audit", !.entity = id])
        /\ UNCHANGED <<customer, jobLocation, job, timeEntry, auditLog>>

\* DELETE /admin/employees/:id: logAudit and the response
ArchiveEmployeeAudit(p) ==
    LET r == req[p] IN
    /\ r.pc = "audit"
    /\ r.op = "DELETE /admin/employees/:id"
    /\ logAudit(r.user.companyId, r.user.id, "EMPLOYEE_DELETED", "EMPLOYEE", r.id, {})
    /\ Set(p, Reply(r, 200, {}))
    /\ UNCHANGED <<employee, customer, jobLocation, job, timeEntry>>

\* POST /admin/employees/:id/restore, through prisma.employee.update
RestoreEmployee(p) ==
    /\ Free(p)
    /\ CanWrite(2)
    /\ \E user \in Principals, id \in PathIds :
        LET r == NewReq("POST /admin/employees/:id/restore", user, id, NoBody) IN
        /\ IF ~IsAdmin(user)
           THEN /\ Set(p, Fail(r, 403, "Forbidden"))
                /\ UNCHANGED <<employee, clock>>
           ELSE IF FindById(employee, id) = {}
           THEN /\ Set(p, Throw(r))
                /\ UNCHANGED <<employee, clock>>
           ELSE \E old \in FindById(employee, id) :
                /\ employee' = Replace(employee, id, ApplyData(old, RestoreData))
                /\ clock' = clock + 1
                /\ Set(p, [r EXCEPT !.pc = "audit", !.entity = id])
        /\ UNCHANGED <<customer, jobLocation, job, timeEntry, auditLog>>

\* POST /admin/employees/:id/restore: logAudit and the response
RestoreEmployeeAudit(p) ==
    LET r == req[p] IN
    /\ r.pc = "audit"
    /\ r.op = "POST /admin/employees/:id/restore"
    /\ logAudit(r.user.companyId, r.user.id, "EMPLOYEE_RESTORED", "EMPLOYEE", r.id, {})
    /\ Set(p, Reply(r, 200, {}))
    /\ UNCHANGED <<employee, customer, jobLocation, job, timeEntry>>

EmployeeStep(p) ==
    \/ ListEmployees(p)
    \/ CreateEmployee(p) \/ CreateEmployeeWrite(p) \/ CreateEmployeeAudit(p)
    \/ UpdateEmployee(p) \/ UpdateEmployeeWrite(p) \/ UpdateEmployeeAudit(p)
    \/ ArchiveEmployee(p) \/ ArchiveEmployeeAudit(p)
    \/ RestoreEmployee(p) \/ RestoreEmployeeAudit(p)

(***************************************************************************)
(* Customers                                                               *)
(***************************************************************************)
\* businessAddressLine1 stands for the four required address fields
\* (businessAddressLine1, businessCity, businessState, businessPostalCode),
\* which a body of the model carries together or not at all.
CustomerCreateBodies ==
    { [name |-> "Nova", businessAddressLine1 |-> "1 Main St"],
      [name |-> "Nova"] }

\* PUT /admin/customers/:id hands req.body to the store as it comes.
CustomerUpdateBodies ==
    { [name |-> "Apex"], [deletedBy |-> 1], [companyId |-> 2] }

\* GET /admin/customers
ListCustomers(p) ==
    /\ Free(p)
    /\ \E user \in Principals, showArchived \in BOOLEAN :
        LET r == NewReq("GET /admin/customers", user, 0,
                        [showArchived |-> showArchived]) IN
        /\ Set(p, IF ~IsAdmin(user) THEN Fail(r, 403, "Forbidden")
                  ELSE Reply(r, 200,
                         { c \in customer : /\ c.companyId = user.companyId
                                            /\ Visible(c, showArchived) }))
        /\ UNCHANGED <<tables, clock>>

\* POST /admin/customers, through prisma.customer.create
CreateCustomer(p) ==
    /\ Free(p)
    /\ CanWrite(2)
    /\ \E user \in Principals, body \in CustomerCreateBodies :
        LET r == NewReq("POST /admin/customers", user, 0, body)
            row == [id |-> NextId(customer), companyId |-> user.companyId,
                    name |-> body.name,
                    businessAddressLine1 |-> body.businessAddressLine1,
                    deletedAt |-> Null, deletedBy |-> Null] IN
        /\ IF ~IsAdmin(user)
           THEN /\ Set(p, Fail(r, 403, "Forbidden"))
                /\ UNCHANGED <<customer, clock>>
           ELSE IF ~(Truthy(body, "name") /\ Truthy(body, "businessAddressLine1"))
           THEN /\ Set(p, Fail(r, 400, "Missing required fields."))
                /\ UNCHANGED <<customer, clock>>
           ELSE /\ customer' = customer \cup {row}
                /\ clock' = clock + 1
                /\ Set(p, [r EXCEPT !.pc = "audit", !.entity = row.id, !.data = {row}])
        /\ UNCHANGED <<employee, jobLocation, job, timeEntry, auditLog>>

\* POST /admin/customers: logAudit and the response
CreateCustomerAudit(p) ==
    LET r == req[p] IN
    /\ r.pc = "audit"
    /\ r.op = "POST /admin/customers"
    /\ logAudit(r.user.companyId, r.user.id, "CUSTOMER_CREATED", "CUSTOMER", r.entity,
                r.data)
    /\ Set(p, Reply(r, 201, r.data))
    /\ UNCHANGED <<employee, customer, jobLocation, job, timeEntry>>

\* prisma.customer.findFirst({ where: { id, companyId: user.companyId } })
FindCustomerOf(user, id) ==
    {c \in customer : c.id = id /\ c.companyId = user.companyId}

\* PUT /admin/customers/:id, up to the before-state lookup
UpdateCustomer(p) ==
    /\ Free(p)
    /\ CanWrite(2)
    /\ \E user \in Principals, id \in PathIds, body \in CustomerUpdateBodies :
        LET r == NewReq("PUT /admin/customers/:id", user, id, body)
            before == FindCustomerOf(user, id) IN
        /\ Set(p, IF ~IsAdmin(user) THEN Fail(r, 403, "Forbidden")
                  ELSE IF before = {} THEN Fail(r, 404, "Customer not found")
                  ELSE [r EXCEPT !.pc = "write", !.before = before])
        /\ UNCHANGED <<tables, clock>>

\* A faulty write, for C23: the update is refused when the row is no longer
\* the one the handler read.
UpdateCustomerWriteChecked(p) ==
    LET r == req[p] IN
    /\ r.pc = "write"
    /\ r.op = "PUT /admin/customers/:id"
    /\ IF FindById(customer, r.id) # r.before
       THEN /\ Set(p, Throw(r))
            /\ UNCHANGED <<customer, clock>>
       ELSE \E old \in FindById(customer, r.id) :
            LET new == ApplyData(old, r.body) IN
            /\ customer' = Replace(customer, r.id, new)
            /\ clock' = clock + 1
            /\ Set(p, [r EXCEPT !.pc = "audit", !.entity = r.id, !.data = {new}])
    /\ UNCHANGED <<employee, jobLocation, job, timeEntry, auditLog>>

\* PUT /admin/customers/:id: prisma.customer.update({ where: { id }, data: req.body })
UpdateCustomerWrite(p) ==
    LET r == req[p] IN
    /\ r.pc = "write"
    /\ r.op = "PUT /admin/customers/:id"
    /\ IF FindById(customer, r.id) = {}
       THEN /\ Set(p, Throw(r))
            /\ UNCHANGED <<customer, clock>>
       ELSE \E old \in FindById(customer, r.id) :
            LET new == ApplyData(old, r.body) IN
            /\ customer' = Replace(customer, r.id, new)
            /\ clock' = clock + 1
            /\ Set(p, [r EXCEPT !.pc = "audit", !.entity = r.id, !.data = {new}])
    /\ UNCHANGED <<employee, jobLocation, job, timeEntry, auditLog>>

\* PUT /admin/customers/:id: logAudit and the response
UpdateCustomerAudit(p) ==
    LET r == req[p] IN
    /\ r.pc = "audit"
    /\ r.op = "PUT /admin/customers/:id"
    /\ logAudit(r.user.companyId, r.user.id, "CUSTOMER_UPDATED", "CUSTOMER", r.id,
                {[before |-> r.before, after |-> r.data]})
    /\ Set(p, Reply(r, 200, r.data))
    /\ UNCHANGED <<employee, customer, jobLocation, job, timeEntry>>

\* DELETE /admin/customers/:id, up to the lookup
ArchiveCustomer(p) ==
    /\ Free(p)
    /\ CanWrite(2)
    /\ \E user \in Principals, id \in PathIds :
        LET r == NewReq("DELETE /admin/customers/:id", user, id, NoBody) IN
        /\ Set(p, IF ~IsAdmin(user) THEN Fail(r, 403, "Forbidden")
                  ELSE IF FindCustomerOf(user, id) = {}
                  THEN Fail(r, 404, "Customer not found")
                  ELSE [r EXCEPT !.pc = "write"])
        /\ UNCHANGED <<tables, clock>>

\* A faulty archive, for C30: the customer's jobs are archived with it.
ArchiveCustomerWriteCascade(p) ==
    LET r == req[p] IN
    /\ r.pc = "write"
    /\ r.op = "DELETE /admin/customers/:id"
    /\ IF FindById(customer, r.id) = {}
       THEN /\ Set(p, Throw(r))
            /\ UNCHANGED <<customer, job, clock>>
       ELSE \E old \in FindById(customer, r.id) :
            /\ customer' = Replace(customer, r.id, ApplyData(old, ArchiveData(r.user)))
            /\ job' = { IF j.customerId = r.id
                        THEN ApplyData(j, ArchiveData(r.user)) ELSE j : j \in job }
            /\ clock' = clock + 1
            /\ Set(p, [r EXCEPT !.pc = "audit", !.entity = r.id])
    /\ UNCHANGED <<employee, jobLocation, timeEntry, auditLog>>

\* DELETE /admin/customers/:id: prisma.customer.update
ArchiveCustomerWrite(p) ==
    LET r == req[p] IN
    /\ r.pc = "write"
    /\ r.op = "DELETE /admin/customers/:id"
    /\ IF FindById(customer, r.id) = {}
       THEN /\ Set(p, Throw(r))
            /\ UNCHANGED <<customer, clock>>
       ELSE \E old \in FindById(customer, r.id) :
            /\ customer' = Replace(customer, r.id, ApplyData(old, ArchiveData(r.user)))
            /\ clock' = clock + 1
            /\ Set(p, [r EXCEPT !.pc = "audit", !.entity = r.id])
    /\ UNCHANGED <<employee, jobLocation, job, timeEntry, auditLog>>

\* DELETE /admin/customers/:id: logAudit and the response
ArchiveCustomerAudit(p) ==
    LET r == req[p] IN
    /\ r.pc = "audit"
    /\ r.op = "DELETE /admin/customers/:id"
    /\ logAudit(r.user.companyId, r.user.id, "CUSTOMER_DELETED", "CUSTOMER", r.id, {})
    /\ Set(p, Reply(r, 200, {}))
    /\ UNCHANGED <<employee, customer, jobLocation, job, timeEntry>>

\* POST /admin/customers/:id/restore, up to the lookup
RestoreCustomer(p) ==
    /\ Free(p)
    /\ CanWrite(2)
    /\ \E user \in Principals, id \in PathIds :
        LET r == NewReq("POST /admin/customers/:id/restore", user, id, NoBody) IN
        /\ Set(p, IF ~IsAdmin(user) THEN Fail(r, 403, "Forbidden")
                  ELSE IF FindCustomerOf(user, id) = {}
                  THEN Fail(r, 404, "Customer not found")
                  ELSE [r EXCEPT !.pc = "write"])
        /\ UNCHANGED <<tables, clock>>

\* POST /admin/customers/:id/restore: prisma.customer.update
RestoreCustomerWrite(p) ==
    LET r == req[p] IN
    /\ r.pc = "write"
    /\ r.op = "POST /admin/customers/:id/restore"
    /\ IF FindById(customer, r.id) = {}
       THEN /\ Set(p, Throw(r))
            /\ UNCHANGED <<customer, clock>>
       ELSE \E old \in FindById(customer, r.id) :
            /\ customer' = Replace(customer, r.id, ApplyData(old, RestoreData))
            /\ clock' = clock + 1
            /\ Set(p, [r EXCEPT !.pc = "audit", !.entity = r.id])
    /\ UNCHANGED <<employee, jobLocation, job, timeEntry, auditLog>>

\* POST /admin/customers/:id/restore: logAudit and the response
RestoreCustomerAudit(p) ==
    LET r == req[p] IN
    /\ r.pc = "audit"
    /\ r.op = "POST /admin/customers/:id/restore"
    /\ logAudit(r.user.companyId, r.user.id, "CUSTOMER_RESTORED", "CUSTOMER", r.id, {})
    /\ Set(p, Reply(r, 200, {}))
    /\ UNCHANGED <<employee, customer, jobLocation, job, timeEntry>>

CustomerStep(p) ==
    \/ ListCustomers(p)
    \/ CreateCustomer(p) \/ CreateCustomerAudit(p)
    \/ UpdateCustomer(p) \/ UpdateCustomerWrite(p) \/ UpdateCustomerAudit(p)
    \/ ArchiveCustomer(p) \/ ArchiveCustomerWrite(p) \/ ArchiveCustomerAudit(p)
    \/ RestoreCustomer(p) \/ RestoreCustomerWrite(p) \/ RestoreCustomerAudit(p)

(***************************************************************************)
(* Job locations.  A location has no companyId: its tenant is that of its  *)
(* customer.                                                               *)
(***************************************************************************)
\* addressLine1 stands for the four required address fields (addressLine1,
\* city, state, postalCode), which a body carries together or not at all.
LocationCreateBodies ==
    { [name |-> "Gate", addressLine1 |-> "2 Quay Rd"], [name |-> "Gate"] }

\* PUT /admin/locations/:id hands req.body to the store as it comes.
LocationUpdateBodies ==
    { [name |-> "Pier"] } \cup { [customerId |-> c] : c \in Ids }

\* include: { customer: true }
CustomerOf(l) == CHOOSE c \in customer : c.id = l.customerId
WithCustomer(l) == l @@ [customer |-> CustomerOf(l)]

\* prisma.jobLocation.findFirst({ where: { id }, include: { customer: true } })
\* and the check `!before || before.customer.companyId !== user.companyId`
FindLocationOf(user, id) ==
    {l \in jobLocation : l.id = id /\ CustomerOf(l).companyId = user.companyId}

\* GET /admin/customers/:customerId/locations
ListLocations(p) ==
    /\ Free(p)
    /\ \E user \in Principals, customerId \in Ids, showArchived \in BOOLEAN :
        LET r == NewReq("GET /admin/customers/:customerId/locations", user,
                        customerId, [showArchived |-> showArchived]) IN
        /\ Set(p, IF ~IsAdmin(user) THEN Fail(r, 403, "Forbidden")
                  ELSE IF FindCustomerOf(user, customerId) = {}
                  THEN Fail(r, 404, "Customer not found")
                  ELSE Reply(r, 200,
                         { l \in jobLocation : /\ l.customerId = customerId
                                               /\ Visible(l, showArchived) }))
        /\ UNCHANGED <<tables, clock>>

\* A faulty create, for C25: the location is inserted before the customer is
\* looked up, and a customer of another tenant is answered 404 afterwards.
CreateLocationInsertFirst(p) ==
    /\ Free(p)
    /\ CanWrite(2)
    /\ \E user \in Principals, customerId \in Ids, body \in LocationCreateBodies :
        LET r == NewReq("POST /admin/customers/:customerId/locations", user,
                        customerId, body)
            row == [id |-> NextId(jobLocation), customerId |-> customerId,
                    name |-> body.name, addressLine1 |-> "",
                    deletedAt |-> Null, deletedBy |-> Null] IN
        IF IsAdmin(user) /\ Truthy(body, "addressLine1")
           /\ FindCustomerOf(user, customerId) = {}
        THEN /\ jobLocation' = jobLocation \cup {row}
             /\ Set(p, Fail(r, 404, "Customer not found"))
             /\ UNCHANGED <<employee, customer, job, timeEntry, auditLog, clock>>
        ELSE /\ Set(p, IF ~IsAdmin(user) THEN Fail(r, 403, "Forbidden")
                       ELSE IF ~Truthy(body, "addressLine1")
                       THEN Fail(r, 400, "Missing required address fields")
                       ELSE [r EXCEPT !.pc = "write"])
             /\ UNCHANGED <<tables, clock>>

\* POST /admin/customers/:customerId/locations, up to the customer lookup
CreateLocation(p) ==
    /\ Free(p)
    /\ CanWrite(2)
    /\ \E user \in Principals, customerId \in Ids, body \in LocationCreateBodies :
        LET r == NewReq("POST /admin/customers/:customerId/locations", user,
                        customerId, body) IN
        /\ Set(p, IF ~IsAdmin(user) THEN Fail(r, 403, "Forbidden")
                  ELSE IF ~Truthy(body, "addressLine1")
                  THEN Fail(r, 400, "Missing required address fields")
                  ELSE IF FindCustomerOf(user, customerId) = {}
                  THEN Fail(r, 404, "Customer not found")
                  ELSE [r EXCEPT !.pc = "write"])
        /\ UNCHANGED <<tables, clock>>

\* POST /admin/customers/:customerId/locations: prisma.jobLocation.create
CreateLocationWrite(p) ==
    LET r == req[p]
        row == [id |-> NextId(jobLocation), customerId |-> r.id,
                name |-> r.body.name, addressLine1 |-> r.body.addressLine1,
                deletedAt |-> Null, deletedBy |-> Null] IN
    /\ r.pc = "write"
    /\ r.op = "POST /admin/customers/:customerId/locations"
    /\ jobLocation' = jobLocation \cup {row}
    /\ clock' = clock + 1
    /\ Set(p, [r EXCEPT !.pc = "audit", !.entity = row.id, !.data = {row}])
    /\ UNCHANGED <<employee, customer, job, timeEntry, auditLog>>

\* POST /admin/customers/:customerId/locations: logAudit and the response
CreateLocationAudit(p) ==
    LET r == req[p] IN
    /\ r.pc = "audit"
    /\ r.op = "POST /admin/customers/:customerId/locations"
    /\ logAudit(r.user.companyId, r.user.id, "LOCATION_CREATED", "LOCATION", r.entity,
                r.data)
    /\ Set(p, Reply(r, 201, r.data))
    /\ UNCHANGED <<employee, customer, jobLocation, job, timeEntry>>

\* PUT /admin/locations/:id, up to the before-state lookup
UpdateLocation(p) ==
    /\ Free(p)
    /\ CanWrite(2)
    /\ \E user \in Principals, id \in PathIds, body \in LocationUpdateBodies :
        LET r == NewReq("PUT /admin/locations/:id", user, id, body)
            before == FindLocationOf(user, id) IN
        /\ Set(p, IF ~IsAdmin(user) THEN Fail(r, 403, "Forbidden")
                  ELSE IF before = {} THEN Fail(r, 404, "Location not found")
                  ELSE [r EXCEPT !.pc = "write",
                                 !.before = {WithCustomer(l) : l \in before}])
        /\ UNCHANGED <<tables, clock>>

\* PUT /admin/locations/:id: prisma.jobLocation.update({ where: { id }, data: req.body })
UpdateLocationWrite(p) ==
    LET r == req[p] IN
    /\ r.pc = "write"
    /\ r.op = "PUT /admin/locations/:id"
    /\ IF \/ FindById(jobLocation, r.id) = {}
          \/ (Has(r.body, "customerId") /\    \* JobLocation_customerId_fkey
                FindById(customer, r.body.customerId) = {})
       THEN /\ Set(p, Throw(r))
            /\ UNCHANGED <<jobLocation, clock>>
       ELSE \E old \in FindById(jobLocation, r.id) :
            LET new == ApplyData(old, r.body) IN
            /\ jobLocation' = Replace(jobLocation, r.id, new)
            /\ clock' = clock + 1
            /\ Set(p, [r EXCEPT !.pc = "audit", !.entity = r.id, !.data = {new}])
    /\ UNCHANGED <<employee, customer, job, timeEntry, auditLog>>

\* PUT /admin/locations/:id: logAudit and the response
UpdateLocationAudit(p) ==
    LET r == req[p] IN
    /\ r.pc = "audit"
    /\ r.op = "PUT /admin/locations/:id"
    /\ logAudit(r.user.companyId, r.user.id, "LOCATION_UPDATED", "LOCATION", r.id,
                {[before |-> r.before, after |-> r.data]})
    /\ Set(p, Reply(r, 200, r.data))
    /\ UNCHANGED <<employee, customer, jobLocation, job, timeEntry>>

\* DELETE /admin/locations/:id, up to the lookup
ArchiveLocation(p) ==
    /\ Free(p)
    /\ CanWrite(2)
    /\ \E user \in Principals, id \in PathIds :
        LET r == NewReq("DELETE /admin/locations/:id", user, id, NoBody) IN
        /\ Set(p, IF ~IsAdmin(user) THEN Fail(r, 403, "Forbidden")
                  ELSE IF FindLocationOf(user, id) = {}
                  THEN Fail(r, 404, "Location not found")
                  ELSE [r EXCEPT !.pc = "write"])
        /\ UNCHANGED <<tables, clock>>

\* DELETE /admin/locations/:id: prisma.jobLocation.update
ArchiveLocationWrite(p) ==
    LET r == req[p] IN
    /\ r.pc = "write"
    /\ r.op = "DELETE /admin/locations/:id"
    /\ IF FindById(jobLocation, r.id) = {}
       THEN /\ Set(p, Throw(r))
            /\ UNCHANGED <<jobLocation, clock>>
       ELSE \E old \in FindById(jobLocation, r.id) :
            /\ jobLocation' =
                   Replace(jobLocation, r.id, ApplyData(old, ArchiveData(r.user)))
            /\ clock' = clock + 1
            /\ Set(p, [r EXCEPT !.pc = "audit", !.entity = r.id])
    /\ UNCHANGED <<employee, customer, job, timeEntry, auditLog>>

\* A faulty handler, for C15: the archive is recorded as a restore.
ArchiveLocationAuditAsRestore(p) ==
    LET r == req[p] IN
    /\ r.pc = "audit"
    /\ r.op = "DELETE /admin/locations/:id"
    /\ logAudit(r.user.companyId, r.user.id, "LOCATION_RESTORED", "LOCATION", r.id, {})
    /\ Set(p, Reply(r, 200, {}))
    /\ UNCHANGED <<employee, customer, jobLocation, job, timeEntry>>

\* DELETE /admin/locations/:id: logAudit and the response
ArchiveLocationAudit(p) ==
    LET r == req[p] IN
    /\ r.pc = "audit"
    /\ r.op = "DELETE /admin/locations/:id"
    /\ logAudit(r.user.companyId, r.user.id, "LOCATION_DELETED", "LOCATION", r.id, {})
    /\ Set(p, Reply(r, 200, {}))
    /\ UNCHANGED <<employee, customer, jobLocation, job, timeEntry>>

\* POST /admin/locations/:id/restore, up to the lookup
RestoreLocation(p) ==
    /\ Free(p)
    /\ CanWrite(2)
    /\ \E user \in Principals, id \in PathIds :
        LET r == NewReq("POST /admin/locations/:id/restore", user, id, NoBody) IN
        /\ Set(p, IF ~IsAdmin(user) THEN Fail(r, 403, "Forbidden")
                  ELSE IF FindLocationOf(user, id) = {}
                  THEN Fail(r, 404, "Location not found")
                  ELSE [r EXCEPT !.pc = "write"])
        /\ UNCHANGED <<tables, clock>>

\* POST /admin/locations/:id/restore: prisma.jobLocation.update
RestoreLocationWrite(p) ==
    LET r == req[p] IN
    /\ r.pc = "write"
    /\ r.op = "POST /admin/locations/:id/restore"
    /\ IF FindById(jobLocation, r.id) = {}
       THEN /\ Set(p, Throw(r))
            /\ UNCHANGED <<jobLocation, clock>>
       ELSE \E old \in FindById(jobLocation, r.id) :
            /\ jobLocation' = Replace(jobLocation, r.id, ApplyData(old, RestoreData))
            /\ clock' = clock + 1
            /\ Set(p, [r EXCEPT !.pc = "audit", !.entity = r.id])
    /\ UNCHANGED <<employee, customer, job, timeEntry, auditLog>>

\* POST /admin/locations/:id/restore: logAudit and the response
RestoreLocationAudit(p) ==
    LET r == req[p] IN
    /\ r.pc = "audit"
    /\ r.op = "POST /admin/locations/:id/restore"
    /\ logAudit(r.user.companyId, r.user.id, "LOCATION_RESTORED", "LOCATION", r.id, {})
    /\ Set(p, Reply(r, 200, {}))
    /\ UNCHANGED <<employee, customer, jobLocation, job, timeEntry>>

LocationStep(p) ==
    \/ ListLocations(p)
    \/ CreateLocation(p) \/ CreateLocationWrite(p) \/ CreateLocationAudit(p)
    \/ UpdateLocation(p) \/ UpdateLocationWrite(p) \/ UpdateLocationAudit(p)
    \/ ArchiveLocation(p) \/ ArchiveLocationWrite(p) \/ ArchiveLocationAudit(p)
    \/ RestoreLocation(p) \/ RestoreLocationWrite(p) \/ RestoreLocationAudit(p)

(***************************************************************************)
(* Jobs                                                                    *)
(***************************************************************************)
JobCreateBodies ==
    { [name |-> "Wax", customerId |-> c, locationId |-> l] : c \in Ids, l \in Ids }
    \cup { [name |-> "Wax"] }

JobUpdateBodies ==
    { [name |-> "Dust"] }
    \cup { [customerId |-> c] : c \in Ids }
    \cup { [locationId |-> l] : l \in Ids }
    \cup { [customerId |-> c, locationId |-> l] : c \in Ids, l \in Ids }

\* include: { customer: true, location: true }
WithRelations(j) ==
    j @@ [customer |-> CHOOSE c \in customer : c.id = j.customerId,
          location |-> CHOOSE l \in jobLocation : l.id = j.locationId]

\* A faulty lookup, for C8: the location is looked up by id alone.
FindLocationAny(locationId, customerId) == FindById(jobLocation, locationId)

\* prisma.jobLocation.findFirst({ where: { id: locationId, customerId } })
FindLocationAt(locationId, customerId) ==
    {l \in jobLocation : l.id = locationId /\ l.customerId = customerId}

\* where: { companyId, deletedAt: null } of GET /jobs
JobListed(j, user) == j.companyId = user.companyId /\ j.deletedAt = Null

\* GET /jobs
ListJobs(p) ==
    /\ Free(p)
    /\ \E user \in Principals :
        LET r == NewReq("GET /jobs", user, 0, NoBody) IN
        /\ Set(p, Reply(r, 200, { j \in job : JobListed(j, user) }))
        /\ UNCHANGED <<tables, clock>>

\* GET /admin/jobs
ListJobsAdmin(p) ==
    /\ Free(p)
    /\ \E user \in Principals :
        LET r == NewReq("GET /admin/jobs", user, 0, NoBody) IN
        /\ Set(p, IF ~IsAdmin(user) THEN Fail(r, 403, "Forbidden")
                  ELSE Reply(r, 200, { j \in job : j.companyId = user.companyId }))
        /\ UNCHANGED <<tables, clock>>

\* POST /admin/jobs, up to the customer and location lookups
CreateJob(p) ==
    /\ Free(p)
    /\ CanWrite(2)
    /\ \E user \in Principals, body \in JobCreateBodies :
        LET r == NewReq("POST /admin/jobs", user, 0, body) IN
        /\ Set(p, IF ~IsAdmin(user) THEN Fail(r, 403, "Forbidden")
                  ELSE IF ~(/\ Truthy(body, "name") /\ Truthy(body, "customerId")
                            /\ Truthy(body, "locationId"))
                  THEN Fail(r, 400, "Missing required fields: name, customerId, locationId")
                  ELSE IF FindCustomerOf(user, body.customerId) = {}
                  THEN Fail(r, 400, "Customer not found in this company.")
                  ELSE IF FindLocationAt(body.locationId, body.customerId) = {}
                  THEN Fail(r, 400, "Location does not belong to this customer.")
                  ELSE [r EXCEPT !.pc = "write"])
        /\ UNCHANGED <<tables, clock>>

\* POST /admin/jobs: prisma.job.create
CreateJobWrite(p) ==
    LET r == req[p]
        row == [id |-> NextId(job), companyId |-> r.user.companyId,
                customerId |-> r.body.customerId, locationId |-> r.body.locationId,
                name |-> r.body.name, deletedAt |-> Null, deletedBy |-> Null] IN
    /\ r.pc = "write"
    /\ r.op = "POST /admin/jobs"
    /\ job' = job \cup {row}
    /\ clock' = clock + 1
    /\ Set(p, [r EXCEPT !.pc = "audit", !.entity = row.id, !.data = {row}])
    /\ UNCHANGED <<employee, customer, jobLocation, timeEntry, auditLog>>

\* POST /admin/jobs: logAudit and the response
CreateJobAudit(p) ==
    LET r == req[p] IN
    /\ r.pc = "audit"
    /\ r.op = "POST /admin/jobs"
    /\ logAudit(r.user.companyId, r.user.id, "JOB_CREATED", "JOB", r.entity,
                {Pick(r.body, {"name", "customerId", "locationId", "jobNote"})})
    /\ Set(p, Reply(r, 201, r.data))
    /\ UNCHANGED <<employee, customer, jobLocation, job, timeEntry>>

\* prisma.job.findUnique({ where: { id } }) and the check
\* `!before || before.companyId !== user.companyId`
FindJobOf(user, id) ==
    {j \in job : j.id = id /\ j.companyId = user.companyId}

\* The customer and location checks of PUT /admin/jobs/:id ("only if updating")
JobUpdateError(user, body, before) ==
    IF Truthy(body, "customerId") /\ FindCustomerOf(user, body.customerId) = {}
    THEN "Customer not found in this company."
    ELSE IF /\ Truthy(body, "locationId")
            /\ FindLocationAt(body.locationId,
                              IF Has(body, "customerId") THEN body.customerId
                              ELSE before.customerId) = {}
    THEN "Location does not belong to this customer."
    ELSE ""

\* data of prisma.job.update in PUT /admin/jobs/:id
JobUpdateData(body, before) ==
    Pick(body, {"name", "jobNote"}) @@
    [customerId |-> IF Truthy(body, "customerId") THEN body.customerId
                    ELSE before.customerId,
     locationId |-> IF Truthy(body, "locationId") THEN body.locationId
                    ELSE before.locationId]

\* PUT /admin/jobs/:id, up to the before-state, customer and location lookups
UpdateJob(p) ==
    /\ Free(p)
    /\ CanWrite(2)
    /\ \E user \in Principals, id \in PathIds, body \in JobUpdateBodies :
        LET r == NewReq("PUT /admin/jobs/:id", user, id, body)
            before == FindJobOf(user, id) IN
        /\ Set(p, IF ~IsAdmin(user) THEN Fail(r, 403, "Forbidden")
                  ELSE IF before = {} THEN Fail(r, 404, "Job not found.")
                  ELSE LET b == CHOOSE j \in before : TRUE
                           e == JobUpdateError(user, body, b) IN
                       IF e # "" THEN Fail(r, 400, e)
                       ELSE [r EXCEPT !.pc = "write",
                                      !.before = {WithRelations(b)}])
        /\ UNCHANGED <<tables, clock>>

\* PUT /admin/jobs/:id: prisma.job.update
UpdateJobWrite(p) ==
    LET r == req[p] IN
    /\ r.pc = "write"
    /\ r.op = "PUT /admin/jobs/:id"
    /\ \E b \in r.before :
       LET data == JobUpdateData(r.body, b) IN
       IF \/ FindById(job, r.id) = {}
          \/ FindById(customer, data.customerId) = {}      \* Job_customerId_fkey
          \/ FindById(jobLocation, data.locationId) = {}   \* Job_locationId_fkey
       THEN /\ Set(p, Throw(r))
            /\ UNCHANGED <<job, clock>>
       ELSE \E old \in FindById(job, r.id) :
            LET new == ApplyData(old, data) IN
            /\ job' = Replace(job, r.id, new)
            /\ clock' = clock + 1
            /\ Set(p, [r EXCEPT !.pc = "audit", !.entity = new.id,
                                !.data = {WithRelations(new)}])
    /\ UNCHANGED <<employee, customer, jobLocation, timeEntry, auditLog>>

\* PUT /admin/jobs/:id: logAudit and the response
UpdateJobAudit(p) ==
    LET r == req[p] IN
    /\ r.pc = "audit"
    /\ r.op = "PUT /admin/jobs/:id"
    /\ logAudit(r.user.companyId, r.user.id, "JOB_UPDATED", "JOB", r.entity,
                {[before |-> r.before, after |-> r.data]})
    /\ Set(p, Reply(r, 200, r.data))
    /\ UNCHANGED <<employee, customer, jobLocation, job, timeEntry>>

\* DELETE /admin/jobs/:id, up to the lookup
ArchiveJob(p) ==
    /\ Free(p)
    /\ CanWrite(2)
    /\ \E user \in Principals, id \in PathIds :
        LET r == NewReq("DELETE /admin/jobs/:id", user, id, NoBody) IN
        /\ Set(p, IF ~IsAdmin(user) THEN Fail(r, 403, "Forbidden")
                  ELSE IF FindJobOf(user, id) = {} THEN Fail(r, 404, "Job not found")
                  ELSE [r EXCEPT !.pc = "write"])
        /\ UNCHANGED <<tables, clock>>

\* DELETE /admin/jobs/:id: prisma.job.update
ArchiveJobWrite(p) ==
    LET r == req[p] IN
    /\ r.pc = "write"
    /\ r.op = "DELETE /admin/jobs/:id"
    /\ IF FindById(job, r.id) = {}
       THEN /\ Set(p, Throw(r))
            /\ UNCHANGED <<job, clock>>
       ELSE \E old \in FindById(job, r.id) :
            /\ job' = Replace(job, r.id, ApplyData(old, ArchiveData(r.user)))
            /\ clock' = clock + 1
            /\ Set(p, [r EXCEPT !.pc = "audit", !.entity = r.id])
    /\ UNCHANGED <<employee, customer, jobLocation, timeEntry, auditLog>>

\* DELETE /admin/jobs/:id: logAudit and the response
ArchiveJobAudit(p) ==
    LET r == req[p] IN
    /\ r.pc = "audit"
    /\ r.op = "DELETE /admin/jobs/:id"
    /\ logAudit(r.user.companyId, r.user.id, "JOB_DELETED", "JOB", r.id, {})
    /\ Set(p, Reply(r, 200, {}))
    /\ UNCHANGED <<employee, customer, jobLocation, job, timeEntry>>

\* POST /admin/jobs/:id/restore, up to the lookup
RestoreJob(p) ==
    /\ Free(p)
    /\ CanWrite(2)
    /\ \E user \in Principals, id \in PathIds :
        LET r == NewReq("POST /admin/jobs/:id/restore", user, id, NoBody) IN
        /\ Set(p, IF ~IsAdmin(user) THEN Fail(r, 403, "Forbidden")
                  ELSE IF FindJobOf(user, id) = {} THEN Fail(r, 404, "Job not found")
                  ELSE [r EXCEPT !.pc = "write"])
        /\ UNCHANGED <<tables, clock>>

\* POST /admin/jobs/:id/restore: prisma.job.update
RestoreJobWrite(p) ==
    LET r == req[p] IN
    /\ r.pc = "write"
    /\ r.op = "POST /admin/jobs/:id/restore"
    /\ IF FindById(job, r.id) = {}
       THEN /\ Set(p, Throw(r))
            /\ UNCHANGED <<job, clock>>
       ELSE \E old \in FindById(job, r.id) :
            /\ job' = Replace(job, r.id, ApplyData(old, RestoreData))
            /\ clock' = clock + 1
            /\ Set(p, [r EXCEPT !.pc = "audit", !.entity = r.id])
    /\ UNCHANGED <<employee, customer, jobLocation, timeEntry, auditLog>>

\* POST /admin/jobs/:id/restore: logAudit and the response
RestoreJobAudit(p) ==
    LET r == req[p] IN
    /\ r.pc = "audit"
    /\ r.op = "POST /admin/jobs/:id/restore"
    /\ logAudit(r.user.companyId, r.user.id, "JOB_RESTORED", "JOB", r.id, {})
    /\ Set(p, Reply(r, 200, {}))
    /\ UNCHANGED <<employee, customer, jobLocation, job, timeEntry>>

JobStep(p) ==
    \/ ListJobs(p) \/ ListJobsAdmin(p)
    \/ CreateJob(p) \/ CreateJobWrite(p) \/ CreateJobAudit(p)
    \/ UpdateJob(p) \/ UpdateJobWrite(p) \/ UpdateJobAudit(p)
    \/ ArchiveJob(p) \/ ArchiveJobWrite(p) \/ ArchiveJobAudit(p)
    \/ RestoreJob(p) \/ RestoreJobWrite(p) \/ RestoreJobAudit(p)

(***************************************************************************)
(* Time entries                                                            *)
(***************************************************************************)
\* The bodies of POST /time-entries: with a jobId or without; some carry an
\* employeeId and a companyId of their own, which the handler does not read.
TimeEntryBodies ==
    { [jobId |-> j, start |-> 1, end |-> 2, durationMs |-> 1] : j \in Ids }
    \cup { [jobId |-> j, start |-> 2, end |-> 1, durationMs |-> 1,
            employeeId |-> 1, companyId |-> 2] : j \in Ids }
    \cup { [start |-> 1, end |-> 2, durationMs |-> 1] }

\* The query string of GET /time-entries: employeeId, from, to, each optional.
TimeEntryQueries ==
    { NoBody, [from |-> 2], [to |-> 1], [employeeId |-> 1], [employeeId |-> 2] }

\* A faulty `where`, for C4: the employeeId of the query string is honoured
\* whatever the caller's role, the caller's own id being only the default.
TimeEntryWhereQueryFirst(t, user, query) ==
    /\ t.companyId = user.companyId
    /\ IF Truthy(query, "employeeId") THEN t.employeeId = query.employeeId
       ELSE user.role = "EMPLOYEE" => t.employeeId = user.id
    /\ Truthy(query, "from") => t.start >= query.from
    /\ Truthy(query, "to") => t.start <= query.to

\* A faulty `where`, for C20: an ADMIN's employeeId filter replaces the
\* tenant condition instead of joining it.
TimeEntryWhereEmployeeOnly(t, user, query) ==
    /\ IF user.role = "EMPLOYEE"
       THEN t.companyId = user.companyId /\ t.employeeId = user.id
       ELSE IF Truthy(query, "employeeId") THEN t.employeeId = query.employeeId
       ELSE t.companyId = user.companyId
    /\ Truthy(query, "from") => t.start >= query.from
    /\ Truthy(query, "to") => t.start <= query.to

\* The `where` of GET /time-entries, as a predicate on an entry.
TimeEntryWhere(t, user, query) ==
    /\ t.companyId = user.companyId
    /\ IF user.role = "EMPLOYEE" THEN t.employeeId = user.id
       ELSE Truthy(query, "employeeId") => t.employeeId = query.employeeId
    /\ Truthy(query, "from") => t.start >= query.from
    /\ Truthy(query, "to") => t.start <= query.to

\* A faulty lookup, for C27: deletedAt is not part of the condition.
FindJobForEntryArchivedToo(user, jobId) ==
    { j \in job :
        /\ j.id = jobId
        /\ j.companyId = user.companyId
        /\ WithRelations(j).location.customerId \in
               {c.id : c \in {x \in customer : x.companyId = user.companyId}} }

\* prisma.job.findFirst({ where: { id, companyId, deletedAt: null }, include:
\* { location: { include: { customer: true } } } }) and the check
\* `!job || job.location.customer.companyId !== user.companyId`
FindJobForEntry(user, jobId) ==
    { j \in job :
        /\ j.id = jobId
        /\ j.companyId = user.companyId
        /\ j.deletedAt = Null
        /\ WithRelations(j).location.customerId \in
               {c.id : c \in {x \in customer : x.companyId = user.companyId}} }

\* POST /time-entries, up to the job lookup
CreateTimeEntry(p) ==
    /\ Free(p)
    /\ CanWrite(2)
    /\ \E user \in Principals, body \in TimeEntryBodies :
        LET r == NewReq("POST /time-entries", user, 0, body) IN
        /\ Set(p, IF ~(/\ Truthy(body, "jobId") /\ Truthy(body, "start")
                       /\ Truthy(body, "end") /\ Truthy(body, "durationMs"))
                  THEN Fail(r, 400, "Missing fields")
                  ELSE IF FindJobForEntry(user, body.jobId) = {}
                  THEN Fail(r, 400, "Job not found or not in your company")
                  ELSE [r EXCEPT !.pc = "write"])
        /\ UNCHANGED <<tables, clock>>

\* POST /time-entries: prisma.timeEntry.create and the response
CreateTimeEntryWrite(p) ==
    LET r == req[p]
        row == [id |-> NextId(timeEntry), companyId |-> r.user.companyId,
                employeeId |-> r.user.id, jobId |-> r.body.jobId,
                start |-> r.body.start, end |-> r.body.end,
                durationMs |-> r.body.durationMs] IN
    /\ r.pc = "write"
    /\ r.op = "POST /time-entries"
    /\ timeEntry' = timeEntry \cup {row}
    /\ clock' = clock + 2
    /\ Set(p, Reply([r EXCEPT !.entity = row.id], 201, {row}))
    /\ UNCHANGED <<employee, customer, jobLocation, job, auditLog>>

\* GET /time-entries
ListTimeEntries(p) ==
    /\ Free(p)
    /\ \E user \in Principals, query \in TimeEntryQueries :
        LET r == NewReq("GET /time-entries", user, 0, query) IN
        /\ Set(p, Reply(r, 200, { t \in timeEntry : TimeEntryWhere(t, user, query) }))
        /\ UNCHANGED <<tables, clock>>

(***************************************************************************)
(* Audit log                                                               *)
(***************************************************************************)
\* where: { companyId: user.companyId }
AuditLogOf(user) ==
    { auditLog[i] : i \in { k \in 1..Len(auditLog) :
                              auditLog[k].companyId = user.companyId } }

\* include: { employee: { select: { id: true, name: true } } }
WithEmployee(a) ==
    a @@ [employee |-> Select(CHOOSE e \in employee : e.id = a.employeeId,
                              {"id", "name"})]

\* orderBy: { timestamp: "desc" }: the orders in which the store may return
\* the rows, rows of equal timestamp in any order.
ByTimestampDesc(rows) ==
    { s \in [1..Cardinality(rows) -> rows] :
        /\ \A i, j \in DOMAIN s : i # j => s[i] # s[j]
        /\ \A i, j \in DOMAIN s : i < j => s[i].timestamp >= s[j].timestamp }

\* GET /admin/audit-log.  The log is read at any time, also after the last
\* write the clock allows.
ReadAuditLog(p) ==
    /\ req[p].pc = "idle"
    /\ \E user \in Principals :
        LET r == NewReq("GET /admin/audit-log", user, 0, NoBody) IN
        /\ IF ~IsAdmin(user) THEN Set(p, Fail(r, 403, "Forbidden"))
           ELSE \E logs \in ByTimestampDesc(AuditLogOf(user)) :
                   Set(p, [Reply(r, 200, AuditLogOf(user)) EXCEPT
                              !.list = [i \in DOMAIN logs |-> WithEmployee(logs[i])]])
        /\ UNCHANGED <<tables, clock>>

OtherStep(p) ==
    \/ CreateTimeEntry(p) \/ CreateTimeEntryWrite(p) \/ ListTimeEntries(p)
    \/ ReadAuditLog(p)
    \/ Close(p)

(***************************************************************************)
(* Specifications                                                          *)
(***************************************************************************)
Step(p) ==
    \/ EmployeeStep(p) \/ CustomerStep(p) \/ LocationStep(p) \/ JobStep(p)
    \/ OtherStep(p)

\* Requests handled one after another, the store answering every call.
Next == \E p \in SeqProcs : Step(p)

Spec == Init /\ [][Next]_vars

\* As Spec, and the store may reject an audit insert.
NextFault == \E p \in SeqProcs : Step(p) \/ AuditFails(p)

SpecFault == Init /\ [][NextFault]_vars

(***************************************************************************)
(* The gate in front of the handlers                                       *)
(***************************************************************************)
\* The routes registered with requireAuth before their handler.
ProtectedOps ==
    { "GET /me", "GET /companies/me",
      "GET /admin/employees", "POST /admin/employees", "PUT /admin/employees/:id",
      "DELETE /admin/employees/:id", "POST /admin/employees/:id/restore",
      "GET /admin/customers", "POST /admin/customers", "PUT /admin/customers/:id",
      "DELETE /admin/customers/:id", "POST /admin/customers/:id/restore",
      "GET /admin/customers/:customerId/locations",
      "POST /admin/customers/:customerId/locations", "PUT /admin/locations/:id",
      "DELETE /admin/locations/:id", "POST /admin/locations/:id/restore",
      "GET /jobs", "GET /admin/jobs", "POST /admin/jobs", "PUT /admin/jobs/:id",
      "DELETE /admin/jobs/:id", "POST /admin/jobs/:id/restore",
      "POST /time-entries", "GET /time-entries", "GET /admin/audit-log" }

\* Authorization headers POST /login did not issue: none, a token under
\* another scheme, a token signed with another key, a token that has expired.
\* Each names the ADMIN of company 1.
OtherHeaders ==
    LET admin == [id |-> 1, companyId |-> 1, role |-> "ADMIN"] IN
    { NoHeader,
      [scheme |-> "Basic", token |-> Sign(admin)],
      Bearer([Sign(admin) EXCEPT !.key = "other"]),
      Bearer([Sign(admin) EXCEPT !.exp = 1]) }

\* A request to a protected route with such a header, which may address an
\* entity by id: requireAuth answers it, or calls next() and the handler runs
\* with the payload as req.user.  Such requests are taken while a writing
\* request could be.
Gate(p) ==
    /\ Free(p)
    /\ CanWrite(2)
    /\ \E op \in ProtectedOps, header \in OtherHeaders, id \in {0, 1} :
        LET a == requireAuth(header)
            r == [IdleReq EXCEPT !.op = op, !.header = header, !.id = id,
                                 !.user = a.user] IN
        /\ Set(p, IF a.status # 0 THEN Fail(r, a.status, a.error)
                  ELSE [r EXCEPT !.pc = "next"])
        /\ UNCHANGED <<tables, clock>>

\* As Spec, and requests arrive whose header POST /login did not issue.
NextAuth == \E p \in SeqProcs : Step(p) \/ Gate(p)

SpecAuth == Init /\ [][NextAuth]_vars

(***************************************************************************)
(* routes/auth.ts                                                          *)
(***************************************************************************)
\* The bodies of POST /login: the email of a seeded employee, of an employee
\* a create may add, and of nobody; the password the hashes are of, and
\* another.
LoginBodies ==
    { [email |-> e, password |-> pw] :
          e \in {"a@x", "b@x", "d@x", "z@x"}, pw \in {"pw", "bad"} }

\* A faulty comparison, for C21: any password matches.
CompareAlways(password, hash) == TRUE

\* bcrypt.compare(password, employee.passwordHash)
Compare(password, hash) == Hash(password) = hash

\* The payload POST /login signs.
ClaimsOf(e) == [id |-> e.id, companyId |-> e.companyId, role |-> e.role]

\* POST /login.  The route is registered without requireAuth.
Login(p) ==
    /\ Free(p)
    /\ \E body \in LoginBodies :
        LET r == [IdleReq EXCEPT !.op = "POST /login", !.body = body]
            found == {e \in employee : e.email = body.email} IN
        /\ Set(p, IF found = {} THEN Fail(r, 401, "Invalid credentials")
                  ELSE IF \E e \in found : ~Compare(body.password, e.passwordHash)
                  THEN Fail(r, 401, "Invalid credentials")
                  ELSE Reply(r, 200,
                         { [token |-> Sign(ClaimsOf(e)),
                            user |-> Select(e, {"id", "name", "role", "companyId"})] :
                             e \in found }))
        /\ UNCHANGED <<tables, clock>>

\* Logins, among the requests that create, change, archive and restore
\* employees.
NextLogin == \E p \in SeqProcs : Login(p) \/ EmployeeStep(p) \/ Close(p)

SpecLogin == Init /\ [][NextLogin]_vars

(***************************************************************************)
(* Overlapping requests                                                    *)
(***************************************************************************)
\* Two clients at once, each archiving and restoring jobs and reading the
\* audit log; the steps of their handlers interleave.
OverlapStep(p) ==
    \/ ArchiveJob(p) \/ ArchiveJobWrite(p) \/ ArchiveJobAudit(p)
    \/ RestoreJob(p) \/ RestoreJobWrite(p) \/ RestoreJobAudit(p)
    \/ ReadAuditLog(p)
    \/ Close(p)

NextOverlap == \E p \in Procs : OverlapStep(p)

SpecOverlap == Init /\ [][NextOverlap]_vars

\* Two clients at once; the steps of their handlers interleave at the store
\* calls.  A request is taken while the clock can advance twice for each of
\* the two, so that the clock stays within MaxClock.
RaceOpen == CanWrite(4)

\* Each client updates customers and jobs.
RaceStep(p) ==
    \/ RaceOpen /\ UpdateCustomer(p)
    \/ UpdateCustomerWrite(p) \/ UpdateCustomerAudit(p)
    \/ RaceOpen /\ UpdateJob(p)
    \/ UpdateJobWrite(p) \/ UpdateJobAudit(p)
    \/ Close(p)

NextRace == \E p \in Procs : RaceStep(p)

SpecRace == Init /\ [][NextRace]_vars

\* Each client creates employees.
CreateRaceStep(p) ==
    \/ RaceOpen /\ CreateEmployee(p)
    \/ CreateEmployeeWrite(p) \/ CreateEmployeeAudit(p)
    \/ Close(p)

NextCreateRace == \E p \in Procs : CreateRaceStep(p)

SpecCreateRace == Init /\ [][NextCreateRace]_vars

(***************************************************************************)
(* Vocabulary of the properties                                            *)
(***************************************************************************)
EmployeeIdOps ==
    { "PUT /admin/employees/:id", "DELETE /admin/employees/:id",
      "POST /admin/employees/:id/restore" }
CustomerIdOps ==
    { "PUT /admin/customers/:id", "DELETE /admin/customers/:id",
      "POST /admin/customers/:id/restore",
      "GET /admin/customers/:customerId/locations" }
LocationIdOps ==
    { "PUT /admin/locations/:id", "DELETE /admin/locations/:id",
      "POST /admin/locations/:id/restore" }
JobIdOps ==
    { "PUT /admin/jobs/:id", "DELETE /admin/jobs/:id",
      "POST /admin/jobs/:id/restore" }
JobWriteOps == { "POST /admin/jobs", "PUT /admin/jobs/:id" }

CreateOps ==
    { "POST /admin/employees", "POST /admin/customers",
      "POST /admin/customers/:customerId/locations", "POST /admin/jobs" }
ArchiveOps ==
    { "DELETE /admin/employees/:id", "DELETE /admin/customers/:id",
      "DELETE /admin/locations/:id", "DELETE /admin/jobs/:id" }
RestoreOps ==
    { "POST /admin/employees/:id/restore", "POST /admin/customers/:id/restore",
      "POST /admin/locations/:id/restore", "POST /admin/jobs/:id/restore" }
\* The requests that create, update, archive or restore an audited entity.
MutatingOps ==
    (CreateOps \cup ArchiveOps \cup RestoreOps \cup EmployeeIdOps
       \cup CustomerIdOps \cup LocationIdOps \cup JobIdOps)
    \ { "GET /admin/customers/:customerId/locations" }
\* Every route under /admin.
AdminOps ==
    MutatingOps \cup
    { "GET /admin/employees", "GET /admin/customers",
      "GET /admin/customers/:customerId/locations", "GET /admin/jobs",
      "GET /admin/audit-log" }

\* The tenants of the entities a request addresses by id, in the store as it is:
\* an entity's own companyId, for a location that of its customer.
EmployeeTenant(id) == {e.companyId : e \in FindById(employee, id)}
CustomerTenant(id) == {c.companyId : c \in FindById(customer, id)}
LocationTenant(id) == {CustomerOf(l).companyId : l \in FindById(jobLocation, id)}
JobTenant(id) == {j.companyId : j \in FindById(job, id)}

TenantsAddressed(r) ==
    (IF r.op \in EmployeeIdOps THEN EmployeeTenant(r.id) ELSE {})
    \cup (IF r.op \in CustomerIdOps THEN CustomerTenant(r.id) ELSE {})
    \cup (IF r.op \in LocationIdOps THEN LocationTenant(r.id) ELSE {})
    \cup (IF r.op \in JobIdOps THEN JobTenant(r.id) ELSE {})
    \cup (IF r.op \in JobWriteOps /\ Has(r.body, "customerId")
          THEN CustomerTenant(r.body.customerId) ELSE {})
    \cup (IF r.op \in JobWriteOps /\ Has(r.body, "locationId")
          THEN LocationTenant(r.body.locationId) ELSE {})

\* The slot took a request in this step.
Accepted(p) == req[p].pc = "idle" /\ req'[p].pc # "idle"

\* The request was answered 200 or 201.
Succeeded(r) == r.pc = "done" /\ r.status \in {200, 201}

(***************************************************************************)
(* C1                                                                      *)
(***************************************************************************)
\* C1: an ADMIN's request that addresses, by id, an Employee, Customer,
\* JobLocation or Job of another tenant (update, archive, restore, list
\* locations of a customer, create/update job referencing a customer or a
\* location) is answered 404 in the step that takes it: it is never carried
\* further and never answered anything else.  (Principals that are not ADMIN
\* are left out: they are answered 403 before any lookup.)
C1_CrossTenantIsNotFound ==
    [][\A p \in Procs :
          ( /\ Accepted(p)
            /\ req'[p].user.role = "ADMIN"
            /\ \E c \in TenantsAddressed(req'[p]) : c # req'[p].user.companyId )
          => (req'[p].pc = "done" /\ req'[p].status = 404)]_vars

\* An ADMIN of one company addresses a customer of the other and is answered
\* 404.
C1_Witness ==
    \E p \in Procs :
        /\ req[p].pc = "done"
        /\ req[p].op = "PUT /admin/customers/:id"
        /\ req[p].user.role = "ADMIN"
        /\ CustomerTenant(req[p].id) # {}
        /\ req[p].user.companyId \notin CustomerTenant(req[p].id)
        /\ req[p].status = 404

(***************************************************************************)
(* C2                                                                      *)
(***************************************************************************)
SoftDelete(row) == <<row.deletedAt, row.deletedBy>>

\* C2: whenever a step changes deletedAt or deletedBy of an Employee,
\* Customer, JobLocation or Job, the request handled in that step comes from a
\* principal of the entity's tenant (for a JobLocation: of its customer's
\* tenant), as the tenant was before the step.
C2_SoftDeleteWithinTenant ==
    [][\A p \in Procs : req'[p] # req[p] =>
          /\ \A old \in employee : \A new \in employee' :
                (new.id = old.id /\ SoftDelete(new) # SoftDelete(old))
                => req'[p].user.companyId \in EmployeeTenant(old.id)
          /\ \A old \in customer : \A new \in customer' :
                (new.id = old.id /\ SoftDelete(new) # SoftDelete(old))
                => req'[p].user.companyId \in CustomerTenant(old.id)
          /\ \A old \in jobLocation : \A new \in jobLocation' :
                (new.id = old.id /\ SoftDelete(new) # SoftDelete(old))
                => req'[p].user.companyId \in LocationTenant(old.id)
          /\ \A old \in job : \A new \in job' :
                (new.id = old.id /\ SoftDelete(new) # SoftDelete(old))
                => req'[p].user.companyId \in JobTenant(old.id)]_vars

\* An ADMIN has archived a customer of the own tenant.
C2_Witness ==
    \E p \in Procs :
        /\ Succeeded(req[p])
        /\ req[p].op = "DELETE /admin/customers/:id"
        /\ CustomerTenant(req[p].id) = {req[p].user.companyId}
        /\ \E c \in FindById(customer, req[p].id) :
              c.deletedAt # Null /\ c.deletedBy = req[p].user.id

(***************************************************************************)
(* C3                                                                      *)
(***************************************************************************)
\* C3: a request to a route under /admin (create, update, archive, restore of
\* Employee, Customer, JobLocation, Job; the admin listings; the audit-log
\* read) from a principal whose role is not ADMIN is never carried past the
\* role check: whatever its body and target id, it is answered 403.
C3_NonAdminIsForbidden ==
    \A p \in Procs :
        (req[p].op \in AdminOps /\ req[p].user.role # "ADMIN")
        => (req[p].pc = "done" /\ req[p].status = 403)

\* An EMPLOYEE has asked to archive a job that does not exist and was
\* answered 403.
C3_Witness ==
    \E p \in Procs :
        /\ req[p].user.role = "EMPLOYEE"
        /\ req[p].op = "DELETE /admin/jobs/:id"
        /\ FindById(job, req[p].id) = {}
        /\ req[p].pc = "done"
        /\ req[p].status = 403

EntityTenant(entityType, id) ==
    IF entityType = "EMPLOYEE" THEN EmployeeTenant(id)
    ELSE IF entityType = "CUSTOMER" THEN CustomerTenant(id)
    ELSE IF entityType = "LOCATION" THEN LocationTenant(id)
    ELSE JobTenant(id)

\* C5: the step that answers a create, update, archive or restore of an
\* Employee, Customer, JobLocation or Job with success appends exactly one
\* AuditLog row, whose entityId is the id of the entity written, whose
\* employeeId is the actor's id and whose companyId is the actor's companyId
\* and the tenant of that entity; no other step appends (or changes) a row.
C5_OneAuditRowPerMutation ==
    [][\A p \in Procs : req'[p] # req[p] =>
          IF Succeeded(req'[p]) /\ req'[p].op \in MutatingOps
          THEN /\ Len(auditLog') = Len(auditLog) + 1
               /\ SubSeq(auditLog', 1, Len(auditLog)) = auditLog
               /\ LET a == auditLog'[Len(auditLog')] IN
                  /\ a.entityId = req'[p].entity
                  /\ a.employeeId = req'[p].user.id
                  /\ a.companyId = req'[p].user.companyId
                  /\ EntityTenant(a.entityType, a.entityId) = {a.companyId}
          ELSE auditLog' = auditLog]_vars

\* An ADMIN has updated a job of the own tenant; the last AuditLog row names
\* the job, the actor and the tenant.
C5_Witness ==
    \E p \in Procs :
        /\ Succeeded(req[p])
        /\ req[p].op = "PUT /admin/jobs/:id"
        /\ Len(auditLog) = 1
        /\ auditLog[1].action = "JOB_UPDATED"
        /\ auditLog[1].entityId = req[p].id
        /\ auditLog[1].employeeId = req[p].user.id
        /\ JobTenant(req[p].id) = {auditLog[1].companyId}

(***************************************************************************)
(* C6                                                                      *)
(***************************************************************************)
Audited(action, entityId) ==
    \E i \in 1..Len(auditLog) :
        auditLog[i].action = action /\ auditLog[i].entityId = entityId

\* No handler stands between its domain write and its audit write.
Quiescent == \A p \in Procs : req[p].pc \notin {"write", "audit"}

\* C6: once no handler stands between its domain write and its audit write,
\* every archived Employee, Customer, JobLocation and Job has the AuditLog
\* row of its archive, and every AuditLog row names an entity that exists:
\* no mutation without its audit row, no audit row without its mutation, also
\* when the store has rejected an audit insert.
C6_MutationAndAuditTogether ==
    Quiescent =>
        /\ \A e \in employee : e.deletedAt # Null => Audited("EMPLOYEE_DELETED", e.id)
        /\ \A c \in customer : c.deletedAt # Null => Audited("CUSTOMER_DELETED", c.id)
        /\ \A l \in jobLocation : l.deletedAt # Null => Audited("LOCATION_DELETED", l.id)
        /\ \A j \in job : j.deletedAt # Null => Audited("JOB_DELETED", j.id)
        /\ \A i \in 1..Len(auditLog) :
              EntityTenant(auditLog[i].entityType, auditLog[i].entityId) # {}

\* An archive has been answered with success, its AuditLog row written.
C6_Witness ==
    \E p \in Procs :
        /\ Succeeded(req[p])
        /\ req[p].op = "DELETE /admin/customers/:id"
        /\ \E c \in FindById(customer, req[p].id) : c.deletedAt # Null
        /\ Audited("CUSTOMER_DELETED", req[p].id)

(***************************************************************************)
(* C7                                                                      *)
(***************************************************************************)
\* C7: the location of every Job belongs to the Job's customer.
C7_JobLocationOfJobCustomer ==
    \A j \in job : \A l \in FindById(jobLocation, j.locationId) :
        l.customerId = j.customerId

\* A job update that supplied customerId and locationId has been answered
\* with success, the job's location belonging to its customer.
C7_Witness ==
    \E p \in Procs :
        /\ Succeeded(req[p])
        /\ req[p].op = "PUT /admin/jobs/:id"
        /\ Has(req[p].body, "customerId") /\ Has(req[p].body, "locationId")
        /\ \A j \in FindById(job, req[p].id) :
              \A l \in FindById(jobLocation, j.locationId) :
                  l.customerId = j.customerId

(***************************************************************************)
(* C8                                                                      *)
(***************************************************************************)
\* C8: an ADMIN's POST /admin/jobs whose body names a location that exists and
\* belongs to another customer than the customerId of the body is answered 400
\* in the step that takes it; that step writes no Job row and no AuditLog row,
\* and the request is carried no further.
C8_ForeignLocationRejected ==
    [][\A p \in Procs :
          ( /\ Accepted(p)
            /\ req'[p].op = "POST /admin/jobs"
            /\ req'[p].user.role = "ADMIN"
            /\ Has(req'[p].body, "name")
            /\ Has(req'[p].body, "customerId")
            /\ Has(req'[p].body, "locationId")
            /\ \E l \in FindById(jobLocation, req'[p].body.locationId) :
                  l.customerId # req'[p].body.customerId )
          => /\ req'[p].pc = "done"
             /\ req'[p].status = 400
             /\ job' = job
             /\ auditLog' = auditLog]_vars

\* An ADMIN has asked for a job at a customer of the own tenant and at a
\* location of another customer, and was told so.
C8_Witness ==
    \E p \in Procs :
        /\ req[p].pc = "done"
        /\ req[p].op = "POST /admin/jobs"
        /\ Has(req[p].body, "customerId") /\ Has(req[p].body, "locationId")
        /\ CustomerTenant(req[p].body.customerId) = {req[p].user.companyId}
        /\ \E l \in FindById(jobLocation, req[p].body.locationId) :
              l.customerId # req[p].body.customerId
        /\ req[p].status = 400
        /\ req[p].error = "Location does not belong to this customer."

(***************************************************************************)
(* C9                                                                      *)
(***************************************************************************)
\* The store has seen an archive and then a restore of the same entity, and
\* nothing else.
ArchivedThenRestored ==
    /\ Quiescent
    /\ timeEntry = SeedTimeEntries
    /\ Len(auditLog) = 2
    /\ auditLog[1].action \in
           {"EMPLOYEE_DELETED", "CUSTOMER_DELETED", "LOCATION_DELETED", "JOB_DELETED"}
    /\ auditLog[2].action \in
           {"EMPLOYEE_RESTORED", "CUSTOMER_RESTORED", "LOCATION_RESTORED", "JOB_RESTORED"}
    /\ auditLog[2].entityType = auditLog[1].entityType
    /\ auditLog[2].entityId = auditLog[1].entityId

\* C9: after an archive followed by a restore of the same Employee, Customer,
\* JobLocation or Job, every row of the store is as it was before the archive,
\* deletedAt and deletedBy null as they were.
C9_ArchiveThenRestore ==
    ArchivedThenRestored =>
        /\ employee = SeedEmployees
        /\ customer = SeedCustomers
        /\ jobLocation = SeedLocations
        /\ job = SeedJobs

\* A location has been archived and then restored.
C9_Witness ==
    /\ ArchivedThenRestored
    /\ auditLog[1].entityType = "LOCATION"
    /\ \E p \in Procs : Succeeded(req[p]) /\ req[p].op = "POST /admin/locations/:id/restore"

(***************************************************************************)
(* C10                                                                     *)
(***************************************************************************)
\* The rows of `table` the response `data` lists.
Listed(table, data) == {x \in table : \E d \in data : d.id = x.id}

\* C10: GET /admin/employees (with or without showArchived in the query
\* string), GET /admin/customers and GET /admin/customers/:customerId/locations
\* without showArchived=true, and GET /jobs list no row whose deletedAt is
\* non-null; GET /admin/customers and the locations listing with
\* showArchived=true and GET /admin/jobs list every row of the tenant (of the
\* customer), archived or not.
C10_ListingsAndArchived ==
    \A p \in Procs :
        (req[p].pc = "done" /\ req[p].status = 200) =>
        LET r == req[p] IN
        /\ r.op = "GET /admin/employees" =>
              \A e \in Listed(employee, r.data) : e.deletedAt = Null
        /\ r.op = "GET /admin/customers" =>
              IF r.body.showArchived
              THEN r.data = {c \in customer : c.companyId = r.user.companyId}
              ELSE \A c \in Listed(customer, r.data) : c.deletedAt = Null
        /\ r.op = "GET /admin/customers/:customerId/locations" =>
              IF r.body.showArchived
              THEN r.data = {l \in jobLocation : l.customerId = r.id}
              ELSE \A l \in Listed(jobLocation, r.data) : l.deletedAt = Null
        /\ r.op = "GET /jobs" =>
              \A j \in Listed(job, r.data) : j.deletedAt = Null
        /\ r.op = "GET /admin/jobs" =>
              r.data = {j \in job : j.companyId = r.user.companyId}

\* GET /admin/customers?showArchived=true has listed an archived and an
\* active customer.
C10_Witness ==
    \E p \in Procs :
        /\ req[p].pc = "done"
        /\ req[p].op = "GET /admin/customers"
        /\ req[p].body.showArchived
        /\ \E x \in req[p].data : x.deletedAt # Null
        /\ \E y \in req[p].data : y.deletedAt = Null

(***************************************************************************)
(* C11                                                                     *)
(***************************************************************************)
\* The header carries no token the server would accept now: it is absent, its
\* scheme is not Bearer, its token was signed with another key or has expired.
NoValidToken(header) ==
    \/ header.scheme # "Bearer"
    \/ header.token.key # "JWT_SECRET"
    \/ header.token.exp <= clock

PathIdOps ==
    EmployeeIdOps \cup CustomerIdOps \cup LocationIdOps \cup JobIdOps
    \cup { "POST /admin/customers/:customerId/locations" }

\* The tenants of the entity the path names: none when no row has the id.
TargetTenant(r) ==
    IF r.op \in EmployeeIdOps THEN EmployeeTenant(r.id)
    ELSE IF r.op \in LocationIdOps THEN LocationTenant(r.id)
    ELSE IF r.op \in JobIdOps THEN JobTenant(r.id)
    ELSE CustomerTenant(r.id)

\* What the client sees of a request: whether it was answered, and the answer.
Outcome(r) == <<r.pc, r.status, r.error, r.data>>

\* What the server does with a request whose path id names no row: 403 for a
\* principal that is not ADMIN, 400 for a location without address, else 404,
\* except for the archive and restore of an employee, which look nothing up
\* and whose prisma.employee.update rejects: no response is sent.
OutcomeWhenAbsent(r) ==
    IF r.user.role # "ADMIN" THEN <<"done", 403, "Forbidden", {}>>
    ELSE IF r.op \in { "DELETE /admin/employees/:id",
                       "POST /admin/employees/:id/restore" }
    THEN <<"failed", 0, "", {}>>
    ELSE IF r.op = "PUT /admin/employees/:id"
    THEN <<"done", 404, "Employee not found", {}>>
    ELSE IF r.op = "POST /admin/customers/:customerId/locations"
            /\ ~Truthy(r.body, "addressLine1")
    THEN <<"done", 400, "Missing required address fields", {}>>
    ELSE IF r.op \in CustomerIdOps \/ r.op = "POST /admin/customers/:customerId/locations"
    THEN <<"done", 404, "Customer not found", {}>>
    ELSE IF r.op \in LocationIdOps THEN <<"done", 404, "Location not found", {}>>
    ELSE IF r.op = "PUT /admin/jobs/:id" THEN <<"done", 404, "Job not found.", {}>>
    ELSE <<"done", 404, "Job not found", {}>>

\* C12: a request that addresses an entity by a path id is treated, when the
\* id names an entity of another tenant, exactly as when the id names no
\* entity: for every such operation and every principal, the step that takes
\* the request produces in both cases the same outcome (answered or not,
\* status, error body) and leaves every table as it was.
C12_MaskedAsAbsent ==
    [][\A p \in Procs :
          ( /\ Accepted(p)
            /\ req'[p].op \in PathIdOps
            /\ TargetTenant(req'[p]) # {req'[p].user.companyId} )
          => /\ Outcome(req'[p]) = OutcomeWhenAbsent(req'[p])
             /\ tables' = tables]_vars

\* An ADMIN asked to update a job of the other tenant and was answered as for
\* a job that does not exist.
C12_Witness ==
    \E p \in Procs :
        /\ req[p].op = "PUT /admin/jobs/:id"
        /\ req[p].user.role = "ADMIN"
        /\ JobTenant(req[p].id) # {}
        /\ req[p].user.companyId \notin JobTenant(req[p].id)
        /\ Outcome(req[p]) = <<"done", 404, "Job not found.", {}>>

(***************************************************************************)
(* C13                                                                     *)
(***************************************************************************)
\* C13: the audit log only grows at its end: in every step, every AuditLog
\* row of the state before is in the state after, at its place and with the
\* same field values; no step updates or deletes a row.
C13_AuditLogAppendOnly ==
    [][/\ Len(auditLog') >= Len(auditLog)
       /\ \A i \in 1..Len(auditLog) : auditLog'[i] = auditLog[i]]_vars

\* Two mutations have been recorded, the first row still there under the
\* second.
C13_Witness ==
    /\ Len(auditLog) = 2
    /\ auditLog[1].id = 1 /\ auditLog[2].id = 2
    /\ auditLog[1].timestamp < auditLog[2].timestamp

(***************************************************************************)
(* C14                                                                     *)
(***************************************************************************)
\* C14: the step that answers GET /admin/audit-log to an ADMIN returns
\* exactly the AuditLog rows whose companyId is the principal's, each once and
\* none of another tenant, in an order in which a row inserted later (a
\* greater id) never comes after a row inserted earlier.
C14_AuditReadOwnNewestFirst ==
    [][\A p \in Procs :
          ( /\ req'[p] # req[p]
            /\ req'[p].op = "GET /admin/audit-log"
            /\ Succeeded(req'[p]) )
          => LET list == req'[p].list
                 own == { k \in 1..Len(auditLog) :
                            auditLog[k].companyId = req'[p].user.companyId } IN
             /\ Len(list) = Cardinality(own)
             /\ { list[i].id : i \in DOMAIN list } = { auditLog[k].id : k \in own }
             /\ \A i \in DOMAIN list : list[i].companyId = req'[p].user.companyId
             /\ \A i, j \in DOMAIN list : i < j => list[i].id > list[j].id]_vars

\* An ADMIN has read the log while it held a row of each tenant, and got the
\* own row and not the other.
C14_Witness ==
    \E p \in Procs :
        /\ req[p].op = "GET /admin/audit-log"
        /\ Succeeded(req[p])
        /\ Len(auditLog) = 2
        /\ auditLog[1].companyId # auditLog[2].companyId
        /\ Len(req[p].list) = 1
        /\ req[p].list[1].companyId = req[p].user.companyId

(***************************************************************************)
(* C15                                                                     *)
(***************************************************************************)
\* The vocabulary of audit actions: entity type, kind of operation, action.
AuditActions ==
    { <<"EMPLOYEE", "CREATED", "EMPLOYEE_CREATED">>,
      <<"EMPLOYEE", "UPDATED", "EMPLOYEE_UPDATED">>,
      <<"EMPLOYEE", "DELETED", "EMPLOYEE_DELETED">>,
      <<"EMPLOYEE", "RESTORED", "EMPLOYEE_RESTORED">>,
      <<"CUSTOMER", "CREATED", "CUSTOMER_CREATED">>,
      <<"CUSTOMER", "UPDATED", "CUSTOMER_UPDATED">>,
      <<"CUSTOMER", "DELETED", "CUSTOMER_DELETED">>,
      <<"CUSTOMER", "RESTORED", "CUSTOMER_RESTORED">>,
      <<"LOCATION", "CREATED", "LOCATION_CREATED">>,
      <<"LOCATION", "UPDATED", "LOCATION_UPDATED">>,
      <<"LOCATION", "DELETED", "LOCATION_DELETED">>,
      <<"LOCATION", "RESTORED", "LOCATION_RESTORED">>,
      <<"JOB", "CREATED", "JOB_CREATED">>,
      <<"JOB", "UPDATED", "JOB_UPDATED">>,
      <<"JOB", "DELETED", "JOB_DELETED">>,
      <<"JOB", "RESTORED", "JOB_RESTORED">> }

\* The kind of operation a mutating request performs.
KindOf(op) ==
    IF op \in CreateOps THEN "CREATED"
    ELSE IF op \in ArchiveOps THEN "DELETED"
    ELSE IF op \in RestoreOps THEN "RESTORED"
    ELSE "UPDATED"

\* The type of the entity a mutating request writes.
EntityTypeOf(op) ==
    IF op \in EmployeeIdOps \cup {"POST /admin/employees"} THEN "EMPLOYEE"
    ELSE IF op \in CustomerIdOps \cup {"POST /admin/customers"} THEN "CUSTOMER"
    ELSE IF op \in LocationIdOps \cup {"POST /admin/customers/:customerId/locations"}
    THEN "LOCATION"
    ELSE "JOB"

\* C15: every step that writes an AuditLog row writes it for a create, update,
\* archive or restore of an Employee, Customer, JobLocation or Job, with the
\* entityType of the entity written and the action of the vocabulary that has
\* this entityType as prefix and the operation performed as suffix (create:
\* CREATED, update: UPDATED, archive: DELETED, restore: RESTORED).
C15_AuditActionVocabulary ==
    [][\A p \in Procs :
          (req'[p] # req[p] /\ Len(auditLog') > Len(auditLog))
          => LET a == auditLog'[Len(auditLog')] IN
             /\ req'[p].op \in MutatingOps
             /\ a.entityType = EntityTypeOf(req'[p].op)
             /\ <<a.entityType, KindOf(req'[p].op), a.action>> \in AuditActions]_vars

\* The archive of a location has been recorded as LOCATION_DELETED.
C15_Witness ==
    \E p \in Procs :
        /\ Succeeded(req[p])
        /\ req[p].op = "DELETE /admin/locations/:id"
        /\ auditLog # <<>>
        /\ auditLog[Len(auditLog)].action = "LOCATION_DELETED"
        /\ auditLog[Len(auditLog)].entityType = "LOCATION"
        /\ auditLog[Len(auditLog)].entityId = req[p].id

(***************************************************************************)
(* C16                                                                     *)
(***************************************************************************)
UpdateOps ==
    { "PUT /admin/employees/:id", "PUT /admin/customers/:id",
      "PUT /admin/locations/:id", "PUT /admin/jobs/:id" }

\* The stored row an update request addresses, in the given tables.
Stored(r, employees, customers, locations, jobs) ==
    IF r.op = "PUT /admin/employees/:id" THEN FindById(employees, r.id)
    ELSE IF r.op = "PUT /admin/customers/:id" THEN FindById(customers, r.id)
    ELSE IF r.op = "PUT /admin/locations/:id" THEN FindById(locations, r.id)
    ELSE FindById(jobs, r.id)

\* A snapshot cut down to the columns of the entity (without joined rows).
Columns(snapshot, row) == [f \in DOMAIN snapshot \cap DOMAIN row |-> snapshot[f]]

\* The before- and after-snapshots of the metadata of an UPDATED row, each as
\* a set of snapshots.
Snapshots(a) ==
    LET m == CHOOSE x \in a.metadata : TRUE IN
    IF a.entityType = "EMPLOYEE"
    THEN [before |-> {m.before}, after |-> {m.after}]
    ELSE [before |-> m.before, after |-> m.after]

\* C16: a successful update of an Employee, Customer, JobLocation or Job is
\* recorded with the entity's stored field values as they were immediately
\* before the update as metadata.before, and as they are immediately after
\* it as metadata.after.  Stated on the two steps of the update: the step
\* that writes the entity fixes the row before and the row after, and the
\* step that records the update writes exactly these two, column by column.
C16_UpdateSnapshots ==
    [][\A p \in Procs :
          /\ ( /\ req[p].pc = "write" /\ req'[p].pc = "audit"
               /\ req[p].op \in UpdateOps )
             => /\ \A b \in req'[p].before :
                      {Columns(b, old) :
                          old \in Stored(req[p], employee, customer, jobLocation, job)}
                      = Stored(req[p], employee, customer, jobLocation, job)
                /\ \A d \in req'[p].data :
                      {Columns(d, new) :
                          new \in Stored(req[p], employee', customer', jobLocation', job')}
                      = Stored(req[p], employee', customer', jobLocation', job')
          /\ ( /\ req[p].pc = "audit" /\ Succeeded(req'[p])
               /\ req[p].op \in UpdateOps )
             => LET a == auditLog'[Len(auditLog')]
                    now == Stored(req[p], employee, customer, jobLocation, job) IN
                /\ Len(auditLog') = Len(auditLog) + 1
                /\ \A new \in now :
                      /\ {Columns(x, new) : x \in Snapshots(a).after} = {new}
                      /\ {Columns(x, new) : x \in Snapshots(a).before}
                         = {Columns(b, new) : b \in req[p].before}]_vars

\* The update of a customer's name has been recorded with the row as it was
\* and the row as it is.
C16_Witness ==
    \E p \in Procs :
        /\ Succeeded(req[p])
        /\ req[p].op = "PUT /admin/customers/:id"
        /\ Has(req[p].body, "name")
        /\ auditLog # <<>>
        /\ LET a == auditLog[Len(auditLog)] IN
           /\ a.action = "CUSTOMER_UPDATED"
           /\ a.entityId = req[p].id
           /\ Snapshots(a).after = FindById(customer, req[p].id)
           /\ Snapshots(a).before = req[p].before
           /\ \E b \in Snapshots(a).before, c \in Snapshots(a).after :
                 b.name # c.name /\ c.name = req[p].body.name

(***************************************************************************)
(* C17                                                                     *)
(***************************************************************************)
\* The entity an archive or restore request addresses, when it is of the
\* principal's tenant.
OwnTarget(r) ==
    IF r.op \in EmployeeIdOps
    THEN {e \in FindById(employee, r.id) : e.companyId = r.user.companyId}
    ELSE IF r.op \in CustomerIdOps THEN FindCustomerOf(r.user, r.id)
    ELSE IF r.op \in LocationIdOps THEN FindLocationOf(r.user, r.id)
    ELSE FindJobOf(r.user, r.id)

\* The request asks for the state its entity is in already: an archive of an
\* archived entity, a restore of an active one.
AlreadySo(r) ==
    /\ r.user.role = "ADMIN"
    /\ \/ r.op \in ArchiveOps /\ \E x \in OwnTarget(r) : x.deletedAt # Null
       \/ r.op \in RestoreOps /\ \E x \in OwnTarget(r) : x.deletedAt = Null

\* C17: an ADMIN's archive of an already archived entity and restore of an
\* already active entity of the own tenant are carried through to a success
\* response and change no field of the entity: in every step of such a
\* request the Employee, Customer, JobLocation and Job rows stay as they are
\* (deletedAt and deletedBy of the first archive included), and the request
\* is not refused.
C17_ArchiveRestoreIdempotent ==
    [][\A p \in Procs :
          (req'[p] # req[p] /\ AlreadySo(req'[p]))
          => /\ <<employee', customer', jobLocation', job'>>
                = <<employee, customer, jobLocation, job>>
             /\ req'[p].pc \in {"write", "audit"} \/ Succeeded(req'[p])]_vars

\* The restore of a customer that was active has succeeded, and the customers
\* are as they were.
C17_Witness ==
    \E p \in Procs :
        /\ Succeeded(req[p])
        /\ req[p].op = "POST /admin/customers/:id/restore"
        /\ customer = SeedCustomers
        /\ Len(auditLog) = 1
        /\ auditLog[1].action = "CUSTOMER_RESTORED"

(***************************************************************************)
(* C18                                                                     *)
(***************************************************************************)
\* ACTIVE: neither field set.  ARCHIVED: both set, deletedBy an employee id.
TwoStates(x) ==
    \/ x.deletedAt = Null /\ x.deletedBy = Null
    \/ /\ x.deletedAt # Null
       /\ \E e \in employee : e.id = x.deletedBy

\* C18: in every reachable state each Employee, Customer, JobLocation and Job
\* row is either ACTIVE (deletedAt and deletedBy both null) or ARCHIVED
\* (deletedAt set and deletedBy the id of an employee, the archiver); no row
\* has only one of the two fields set, whatever requests were served, the
\* customer and location updates that pass the request body on included.
C18_ActiveOrArchived ==
    \A x \in employee \cup customer \cup jobLocation \cup job : TwoStates(x)

\* A customer archive has succeeded and left the row ARCHIVED by its sender.
C18_Witness ==
    \E p \in Procs :
        /\ Succeeded(req[p])
        /\ req[p].op = "DELETE /admin/customers/:id"
        /\ \E c \in customer :
              /\ c.id = req[p].id
              /\ c.deletedAt # Null
              /\ c.deletedBy = req[p].user.id

(***************************************************************************)
(* C19                                                                     *)
(***************************************************************************)
\* An employee create the validation lets through: sent by an ADMIN, with
\* email, name, password and a role of the enum.
WellFormedCreate(r) ==
    /\ r.op = "POST /admin/employees"
    /\ r.user.role = "ADMIN"
    /\ \A f \in {"email", "name", "password", "role"} : f \in DOMAIN r.body
    /\ r.body.role \in {"EMPLOYEE", "ADMIN"}

\* No two Employee rows share an email.
EmailsUnique ==
    \A e1, e2 \in employee : e1.email = e2.email => e1.id = e2.id

\* C19: an ADMIN's well-formed employee create whose email is held by an
\* Employee row (of any tenant, active or archived) is answered 409 "Email
\* already exists", adds no Employee row and appends no audit event; and in
\* every reachable state, after every employee update, no two Employee rows
\* share an email.
C19_DuplicateEmailConflict ==
    /\ []EmailsUnique
    /\ [][\A p \in Procs :
            (/\ req[p].pc = "idle"
             /\ WellFormedCreate(req'[p])
             /\ \E e \in employee : e.email = req'[p].body.email)
            => /\ req'[p].pc = "done"
               /\ req'[p].status = 409
               /\ req'[p].error = "Email already exists"
               /\ employee' = employee
               /\ auditLog' = auditLog]_vars

\* The ADMIN of company 2 has asked for an employee with the email of an
\* archived employee of company 1 and has been answered 409; there are the
\* seeded employees and the one audit event of the archive.
C19_Witness ==
    \E p \in Procs :
        /\ WellFormedCreate(req[p])
        /\ req[p].status = 409
        /\ req[p].user.companyId = 2
        /\ \E e \in employee :
              /\ e.email = req[p].body.email
              /\ e.companyId = 1
              /\ e.deletedAt # Null
        /\ Cardinality(employee) = Cardinality(SeedEmployees)
        /\ Len(auditLog) = 1

(***************************************************************************)
(* C20                                                                     *)
(***************************************************************************)
\* The time entries of a principal's tenant.
TenantEntries(user) == {t \in timeEntry : t.companyId = user.companyId}

C21_LoginIssuesToken ==
    [][\A p \in Procs :
          (req[p].pc = "idle" /\ req'[p].op = "POST /login")
          => LET r == req'[p]
                 match == {e \in employee :
                             /\ e.email = r.body.email
                             /\ e.passwordHash = <<"bcrypt", r.body.password>>} IN
             /\ r.pc = "done"
             /\ IF match # {}
                THEN /\ r.status = 200
                     /\ Cardinality(r.data) = 1
                     /\ \A d \in r.data : \E e \in match :
                           /\ d.token.key = "JWT_SECRET"
                           /\ d.token.exp > clock
                           /\ d.token.payload =
                                [id |-> e.id, companyId |-> e.companyId,
                                 role |-> e.role]
                ELSE /\ r.status = 401
                     /\ r.error = "Invalid credentials"
                     /\ r.data = {}]_vars

\* An employee whose stored role was changed from ADMIN to EMPLOYEE has
\* logged in and holds a token with the role EMPLOYEE.
C21_Witness ==
    \E p \in Procs :
        /\ req[p].op = "POST /login"
        /\ req[p].status = 200
        /\ \E d \in req[p].data :
              /\ d.token.payload.id = 1
              /\ d.token.payload.role = "EMPLOYEE"

(***************************************************************************)
(* C22                                                                     *)
(***************************************************************************)
\* The requests whose handler looks the entity of the path up within the
\* principal's tenant before anything else but the role check.
LookupOps ==
    PathIdOps \ { "DELETE /admin/employees/:id",
                  "POST /admin/employees/:id/restore",
                  "POST /admin/customers/:customerId/locations" }

\* The principal of a request as the Employee table has it now.
StoredPrincipal(r) == {e \in employee : e.id = r.user.id}

\* C22: the decision on a request is a function of the claims of its token
\* and of the stored ownership of the entity it addresses, whatever the
\* principal's Employee row says by now: a request is never answered 401
\* while its token is valid; a request to an /admin route is answered 403
\* exactly when the role claim is not ADMIN; and a request that looks its
\* entity up is answered 404 exactly when the role claim is ADMIN and no row
\* of the id belongs to the company of the claims.
C22_DecisionFromClaims ==
    [][\A p \in Procs :
          (req[p].pc = "idle" /\ req'[p].pc # "idle")
          => LET r == req'[p] IN
             /\ r.status # 401
             /\ (r.status = 403) <=> (r.op \in AdminOps /\ r.user.role # "ADMIN")
             /\ r.op \in LookupOps
                  => ((r.status = 404) <=>
                        (/\ r.user.role = "ADMIN"
                         /\ r.user.companyId \notin TargetTenant(r)))]_vars

\* A request under an ADMIN token has succeeded on an /admin route of
\* another entity although its principal's Employee row has the role
\* EMPLOYEE by now.
C22_Witness ==
    \E p \in Procs :
        /\ Succeeded(req[p])
        /\ req[p].op = "PUT /admin/customers/:id"
        /\ req[p].user.role = "ADMIN"
        /\ \E e \in StoredPrincipal(req[p]) :
              e.role = "EMPLOYEE"

(***************************************************************************)
(* C23                                                                     *)
(***************************************************************************)
\* The columns a snapshot and a row have in common, where they differ.
Differing(x, y) == {f \in DOMAIN x \cap DOMAIN y : x[f] # y[f]}

\* C23: while requests interleave at their store calls, the write of a
\* customer or job update is never refused because the row changed after the
\* handler read it: the write goes through, the stored row has the values of
\* that write in every column the write names (the last write wins), and the
\* request then records its audit event and is answered 200.
C23_UpdatesNotDetected ==
    [][\A p \in Procs :
          LET r == req[p] IN
          /\ (/\ r.pc = "write"
              /\ r.op = "PUT /admin/customers/:id"
              /\ req'[p] # r)
             => /\ req'[p].pc = "audit"
                /\ \E c \in customer' :
                      /\ c.id = r.id
                      /\ \A f \in DOMAIN r.body : c[f] = r.body[f]
          /\ (/\ r.pc = "write"
              /\ r.op = "PUT /admin/jobs/:id"
              /\ req'[p] # r)
             => /\ req'[p].pc = "audit"
                /\ \E j \in job' :
                      /\ j.id = r.id
                      /\ \A f \in DOMAIN r.body : j[f] = r.body[f]
          /\ (/\ r.pc = "audit"
              /\ r.op \in {"PUT /admin/customers/:id", "PUT /admin/jobs/:id"}
              /\ req'[p] # r)
             => /\ Succeeded(req'[p])
                /\ Len(auditLog') = Len(auditLog) + 1]_vars

\* Two updates of one customer have both been answered 200, and the audit
\* event of the second carries a before-snapshot that differs from its
\* after-snapshot in a column its body does not name: the state its write
\* replaced was not the one it read.
C23_Witness ==
    \E p, q \in Procs :
        /\ p # q
        /\ Succeeded(req[p]) /\ Succeeded(req[q])
        /\ req[p].op = "PUT /admin/customers/:id"
        /\ req[q].op = "PUT /admin/customers/:id"
        /\ req[p].id = req[q].id
        /\ Len(auditLog) = 2
        /\ auditLog[2].metadata = {[before |-> req[q].before, after |-> req[q].data]}
        /\ \E b \in req[q].before, a \in req[q].data :
              Differing(b, a) \ DOMAIN req[q].body # {}

(***************************************************************************)
(* C24                                                                     *)
(***************************************************************************)
\* The audit events EMPLOYEE_CREATED recorded for an email.
CreatedEvents(email) ==
    {i \in DOMAIN auditLog :
        /\ auditLog[i].action = "EMPLOYEE_CREATED"
        /\ \E m \in auditLog[i].metadata : m.email = email}

\* C24: however two employee creates interleave, both past the lookup by
\* email before either inserts included, at most one Employee row has a
\* given email, and at most one EMPLOYEE_CREATED event is recorded for it.
C24_OneRowPerEmail ==
    \A email \in {"a@x", "b@x", "c@x", "d@x"} :
        /\ Cardinality({e \in employee : e.email = email}) <= 1
        /\ Cardinality(CreatedEvents(email)) <= 1

\* Two creates with one email were both past the lookup; one has been
\* answered 201, the insert of the other was rejected; there is one row and
\* one event for the email.
C24_Witness ==
    \E p, q \in Procs :
        /\ p # q
        /\ req[p].op = "POST /admin/employees"
        /\ req[q].op = "POST /admin/employees"
        /\ Succeeded(req[p])
        /\ req[q].pc = "failed"
        /\ req[p].body.email = req[q].body.email
        /\ Cardinality({e \in employee : e.email = req[p].body.email}) = 1
        /\ Cardinality(CreatedEvents(req[p].body.email)) = 1

(***************************************************************************)
(* C25                                                                     *)
(***************************************************************************)
ClientErrors == {400, 401, 403, 404, 409}

\* C25: a request is answered 400, 401, 403, 404 or 409 in the step that takes
\* it, before any write of its handler: the step of the answer leaves the
\* Employee, Customer, JobLocation, Job, TimeEntry and AuditLog tables as
\* they are, and no step of the request came before it.
C25_ClientErrorsChangeNothing ==
    [][\A p \in Procs :
          (/\ req'[p] # req[p]
           /\ req'[p].pc = "done"
           /\ req'[p].status \in ClientErrors)
          => /\ req[p].pc = "idle"
             /\ tables' = tables]_vars

\* A location create naming a customer of another tenant has been answered
\* 404, and the locations and the audit log are as they were at the start.
C25_Witness ==
    \E p \in Procs :
        /\ req[p].op = "POST /admin/customers/:customerId/locations"
        /\ req[p].pc = "done"
        /\ req[p].status = 404
        /\ jobLocation = SeedLocations
        /\ auditLog = <<>>

(***************************************************************************)
(* C26                                                                     *)
(***************************************************************************)
\* C26: every request ends with a response of its handler, a failure with
\* an error response ({ error } under a status): no request ends in a
\* rejected store call with no response sent, the archive or restore of an
\* employee id no row has and the employee update to a held email included.
C26_EveryRequestAnswered ==
    \A p \in Procs :
        /\ req[p].pc # "failed"
        /\ req[p].pc = "done" /\ req[p].status \notin {200, 201}
             => req[p].error # ""

\* The update of an employee id no row has was answered 404 "Employee not
\* found".
C26_Witness ==
    \E p \in Procs :
        /\ req[p].op = "PUT /admin/employees/:id"
        /\ req[p].pc = "done"
        /\ req[p].status = 404
        /\ req[p].error = "Employee not found"
        /\ FindById(employee, req[p].id) = {}

(***************************************************************************)
(* C27                                                                     *)
(***************************************************************************)
\* The jobs a principal may book time on: of the principal's company and
\* not archived.
BookableJobs(user) ==
    {j \in job : j.companyId = user.companyId /\ j.deletedAt = Null}

C28_EndNotBeforeStart ==
    \A t \in timeEntry : t.end >= t.start

\* A time entry has been created with its end after its start.
C28_Witness ==
    \E p \in Procs :
        /\ req[p].op = "POST /time-entries"
        /\ req[p].status = 201
        /\ \E t \in timeEntry :
              t.id = req[p].entity /\ t.start = 1 /\ t.end = 2

(***************************************************************************)
(* C29                                                                     *)
(***************************************************************************)
\* The rows of a table keep a column in a step.
Keeps(before, after, column) ==
    \A x \in before, y \in after : x.id = y.id => x[column] = y[column]

\* C29: no step changes the owner of a row: a Customer, a Job and an
\* Employee keep their companyId and a JobLocation keeps its customerId,
\* through every update with every body.
C29_UpdatesKeepOwnership ==
    [][/\ Keeps(customer, customer', "companyId")
       /\ Keeps(jobLocation, jobLocation', "customerId")
       /\ Keeps(job, job', "companyId")
       /\ Keeps(employee, employee', "companyId")]_vars

\* A customer update that renamed the customer has succeeded, and the
\* customer is of the principal's company as before.
C29_Witness ==
    \E p \in Procs :
        /\ Succeeded(req[p])
        /\ req[p].op = "PUT /admin/customers/:id"
        /\ "name" \in DOMAIN req[p].body
        /\ \E b \in req[p].before, c \in customer :
              /\ c.id = req[p].id
              /\ c.name = req[p].body.name
              /\ c.name # b.name
              /\ c.companyId = b.companyId

(***************************************************************************)
(* C30                                                                     *)
(***************************************************************************)
CustomerSoftDeleteOps ==
    { "DELETE /admin/customers/:id", "POST /admin/customers/:id/restore" }

\* The active jobs of a principal's company, whatever the soft-delete state
\* of their customer and location.
ActiveJobs(user) ==
    {j \in job : j.companyId = user.companyId /\ j.deletedAt = Null}

\* The job's location is of a customer of the principal's company.
LocationInTenant(j, user) ==
    \E l \in jobLocation, c \in customer :
        l.id = j.locationId /\ c.id = l.customerId /\ c.companyId = user.companyId

\* C30: the archive and the restore of a customer leave every JobLocation,
\* every Job and every other Customer as they are and change no column of
\* the customer but deletedAt and deletedBy; GET /jobs returns every active
\* job of the principal's company, and POST /time-entries accepts every
\* complete body naming an active job of the company at a location of the
\* company, the customer or the location of the job being archived or not.
C30_CustomerArchiveNoCascade ==
    [][\A p \in Procs :
          LET r == req[p]
              n == req'[p] IN
          /\ (r.op \in CustomerSoftDeleteOps /\ n # r)
             => /\ jobLocation' = jobLocation
                /\ job' = job
                /\ \A c \in customer, d \in customer' :
                      c.id = d.id
                      => /\ c.id # r.id => d = c
                         /\ \A f \in DOMAIN c \ {"deletedAt", "deletedBy"} :
                               d[f] = c[f]
          /\ (r.pc = "idle" /\ n.op = "GET /jobs")
             => n.data = ActiveJobs(n.user)
          /\ (/\ r.pc = "idle"
              /\ n.op = "POST /time-entries"
              /\ "jobId" \in DOMAIN n.body)
             => ((n.pc = "write") <=>
                   \E j \in ActiveJobs(n.user) :
                       j.id = n.body.jobId /\ LocationInTenant(j, n.user))]_vars

\* Customer 1 is archived, its job 1 is not, and a time entry on job 1 has
\* been accepted and stored.
C30_Witness ==
    \E p \in Procs :
        /\ req[p].op = "POST /time-entries"
        /\ req[p].status = 201
        /\ \E j \in job, c \in customer :
              /\ j.id = req[p].body.jobId
              /\ j.deletedAt = Null
              /\ c.id = j.customerId
              /\ c.deletedAt # Null
        /\ \E t \in timeEntry : t.id = req[p].entity

=============================================================================
